---- MODULE Spec2Model ----
(***************************************************************************)
(* Model of the request-time authentication state machine of               *)
(* form-mailstone: the session refresh and redirect gate (src/proxy.ts and *)
(* lib/supabase/middleware updateSession) and the OTP challenge flow       *)
(* (lib/actions/auth.ts).                                                  *)
(*                                                                         *)
(* Strings of the program are sequences of one-character strings, so that  *)
(* startsWith, includes, the URL serialisation and the query parsing are   *)
(* computed character by character.                                        *)
(***************************************************************************)
EXTENDS Integers, Sequences, FiniteSets, TLC

VARIABLES
    configured,        \* NEXT_PUBLIC_SUPABASE_URL and _ANON_KEY are both set
    session,           \* the provider's session of this client: NoUser or a user id
    gate,              \* which gate handles the request: "proxy" or "updateSession"
    gpc,               \* position of the gate: "idle", "refreshing", "done"
    request,           \* request.nextUrl (pathname, query) and request.cookies
    supabaseResponse,  \* the `let supabaseResponse` of the gate
    getUserCalls,      \* calls of supabase.auth.getUser() made for this request
    getUserResolved,   \* the awaited getUser() has resolved
    user,              \* data.user of the resolved call
    authError,         \* the resolved call carried an error
    passMutations,     \* the cookiesToSet lists handed to setAll in this pass
    response,          \* what the gate returned
    decision,          \* the return statement that produced it
    clock,             \* seconds since the start
    otpCookie,         \* the browser's otp_session cookie: NoCookie or value and expiry
    otpResult,         \* the AuthResult the last server action returned
    otpCalls,          \* the provider calls the last server action made
    lastOp,            \* the last server action and its argument
    issued,            \* the provider's latest OTP: for which email, when, and
                       \* the email that was pending at that moment
    providerError,     \* error.message of the provider's answer to the last
                       \* server action, NoError when it had none
    browser,           \* the browser's navigation: the URL, whether it is
                       \* loaded, and the user the gate saw for it
    origin,            \* the pathname the gate last sent to the login from
    formEmail,         \* the `email` state of the mounted OTPForm
    resendCooldown,    \* its `resendCooldown` state, in seconds
    cooldownTimer,     \* the interval started by startCooldown is running
    admins,            \* the admins table: the user ids that have a row
    milestones,        \* the milestones table
    mResult,           \* the MilestoneResult the last milestone action returned
    mCalls,            \* the writes the last milestone action sent to the table
    mOp,               \* the last milestone action and its argument
    mPending,          \* a createMilestone that has passed its checks and
                       \* not yet inserted
    page               \* the last page component, route handler or redirecting
                       \* action run on the server: which one, the checks it
                       \* made, and what it answered

gateVars == <<configured, session, gate, gpc, request, supabaseResponse,
              getUserCalls, getUserResolved, user, authError, passMutations,
              response, decision>>

otpVars == <<clock, otpCookie, otpResult, otpCalls, lastOp, issued, providerError>>

flowVars == <<browser, origin, formEmail, resendCooldown, cooldownTimer>>

adminVars == <<admins, milestones, mResult, mCalls, mOp, mPending, page>>

vars == <<gateVars, otpVars, flowVars, adminVars>>

-----------------------------------------------------------------------------
(* Bounds of the model *)

\* setAll invocations the provider may make during one getUser() call
MaxSetAll == 2

\* seconds that pass in one step of the clock, and the time the model runs to
TickStep == 300
MaxClock == 900

-----------------------------------------------------------------------------
(* Strings *)

StartsWith(s, p) == Len(p) <= Len(s) /\ SubSeq(s, 1, Len(p)) = p

\* index of the first occurrence of character c in s at or after i, 0 if none
RECURSIVE IndexFrom(_, _, _)
IndexFrom(s, c, i) ==
    IF i > Len(s) THEN 0
    ELSE IF s[i] = c THEN i
    ELSE IndexFrom(s, c, i + 1)

\* s.split(c)
RECURSIVE Split(_, _)
Split(s, c) ==
    LET i == IndexFrom(s, c, 1)
    IN  IF i = 0 THEN <<s>>
        ELSE <<SubSeq(s, 1, i - 1)>> \o Split(SubSeq(s, i + 1, Len(s)), c)

\* percent-encoding, on the characters the model uses, as the URL query
\* serialiser and the cookie serialiser (encodeURIComponent) do it: letters,
\* digits, "." and "-" are kept, reserved characters are percent-encoded
EncodeChar(c) ==
    CASE c = "/" -> <<"%", "2", "F">>
      [] c = "@" -> <<"%", "4", "0">>
      [] c = "+" -> <<"%", "2", "B">>
      [] c = "?" -> <<"%", "3", "F">>
      [] c = "=" -> <<"%", "3", "D">>
      [] c = "&" -> <<"%", "2", "6">>
      [] c = "%" -> <<"%", "2", "5">>
      [] OTHER  -> <<c>>

RECURSIVE EncodeComponent(_)
EncodeComponent(s) ==
    IF s = <<>> THEN <<>>
    ELSE EncodeChar(Head(s)) \o EncodeComponent(Tail(s))

DecodeHex(h) ==
    CASE h = <<"2", "F">> -> <<"/">>
      [] h = <<"4", "0">> -> <<"@">>
      [] h = <<"2", "B">> -> <<"+">>
      [] h = <<"3", "F">> -> <<"?">>
      [] h = <<"3", "D">> -> <<"=">>
      [] h = <<"2", "6">> -> <<"&">>
      [] h = <<"2", "5">> -> <<"%">>
      [] OTHER -> <<"%">> \o h

RECURSIVE DecodeComponent(_)
DecodeComponent(s) ==
    IF s = <<>> THEN <<>>
    ELSE IF Head(s) = "%" /\ Len(s) >= 3
         THEN DecodeHex(SubSeq(s, 2, 3)) \o DecodeComponent(SubSeq(s, 4, Len(s)))
         ELSE <<Head(s)>> \o DecodeComponent(Tail(s))

-----------------------------------------------------------------------------
(* URLSearchParams: a list of <<name, value>> pairs *)

\* searchParams.get(name): the first value of that name, or NoParam (null)
NoParam == <<"null">>

RECURSIVE ParamGet(_, _)
ParamGet(q, name) ==
    IF q = <<>> THEN NoParam
    ELSE IF Head(q)[1] = name THEN Head(q)[2]
    ELSE ParamGet(Tail(q), name)

\* searchParams.delete(name): every pair of that name is removed
RECURSIVE ParamDelete(_, _)
ParamDelete(q, name) ==
    IF q = <<>> THEN <<>>
    ELSE IF Head(q)[1] = name THEN ParamDelete(Tail(q), name)
    ELSE <<Head(q)>> \o ParamDelete(Tail(q), name)

ParamHas(q, name) == \E i \in 1..Len(q) : q[i][1] = name

\* searchParams.set(name, value): the first pair of that name takes the value
\* and the others are removed; appended when there is none
ParamSet(q, name, value) ==
    IF ParamHas(q, name)
    THEN LET i == CHOOSE j \in 1..Len(q) :
                    q[j][1] = name /\ \A k \in 1..(j - 1) : q[k][1] # name
         IN  SubSeq(q, 1, i - 1) \o <<<<name, value>>>>
                 \o ParamDelete(SubSeq(q, i + 1, Len(q)), name)
    ELSE Append(q, <<name, value>>)

RECURSIVE SerializeQuery(_)
SerializeQuery(q) ==
    IF q = <<>> THEN <<>>
    ELSE EncodeComponent(Head(q)[1]) \o <<"=">> \o EncodeComponent(Head(q)[2])
            \o (IF Len(q) > 1 THEN <<"&">> \o SerializeQuery(Tail(q)) ELSE <<>>)

\* String(url): the pathname, then "?" and the query when there is one
SerializeUrl(u) ==
    u.pathname \o (IF u.query = <<>> THEN <<>> ELSE <<"?">> \o SerializeQuery(u.query))

ParsePair(p) ==
    LET i == IndexFrom(p, "=", 1)
    IN  IF i = 0 THEN <<DecodeComponent(p), <<>>>>
        ELSE <<DecodeComponent(SubSeq(p, 1, i - 1)),
               DecodeComponent(SubSeq(p, i + 1, Len(p)))>>

RECURSIVE ParsePairs(_)
ParsePairs(ps) ==
    IF ps = <<>> THEN <<>>
    ELSE IF Head(ps) = <<>> THEN ParsePairs(Tail(ps))
    ELSE <<ParsePair(Head(ps))>> \o ParsePairs(Tail(ps))

\* new URL(raw): pathname and searchParams
ParseUrl(raw) ==
    LET i == IndexFrom(raw, "?", 1)
    IN  IF i = 0 THEN [pathname |-> raw, query |-> <<>>]
        ELSE [pathname |-> SubSeq(raw, 1, i - 1),
              query |-> ParsePairs(Split(SubSeq(raw, i + 1, Len(raw)), "&"))]

-----------------------------------------------------------------------------
(* Paths and queries of the requests the model sends *)
P_root == <<"/">>
P_account == <<"/", "a", "c", "c", "o", "u", "n", "t">>
P_accountability == <<"/", "a", "c", "c", "o", "u", "n", "t", "a", "b", "i", "l", "i", "t", "y">>
P_dashboard == <<"/", "d", "a", "s", "h", "b", "o", "a", "r", "d">>
P_dashboard_x == <<"/", "d", "a", "s", "h", "b", "o", "a", "r", "d", "/", "x">>
P_profile == <<"/", "p", "r", "o", "f", "i", "l", "e">>
P_settings == <<"/", "s", "e", "t", "t", "i", "n", "g", "s">>
P_login == <<"/", "l", "o", "g", "i", "n">>
P_login_x == <<"/", "l", "o", "g", "i", "n", "/", "x">>
P_otp == <<"/", "o", "t", "p">>
P_otpx == <<"/", "o", "t", "p", "x">>
P_x == <<"/", "x">>

Paths ==
    {P_root, P_account, P_accountability, P_dashboard,
     P_dashboard_x, P_profile, P_settings, P_login,
     P_login_x, P_otp, P_otpx, P_x}

K_redirect == <<"r", "e", "d", "i", "r", "e", "c", "t">>
K_q == <<"q">>
V_v == <<"v">>
EmptyString == <<>>

Queries ==
    {<<>>,
     <<<<K_redirect, P_account>>>>,
     <<<<K_redirect, EmptyString>>>>,
     <<<<K_redirect, P_login>>>>,
     <<<<K_q, V_v>>>>,
     <<<<K_q, V_v>>, <<K_redirect, P_dashboard>>>>,
     <<<<K_redirect, P_x>>, <<K_redirect, P_account>>>>}

\* the request line of each request: the URL as the client sends it
RawUrls == {SerializeUrl([pathname |-> p, query |-> q]) : p \in Paths, q \in Queries}

-----------------------------------------------------------------------------
(* Cookies: a cookie jar is a function from the names it holds to values *)

CookieNames == {"sb-access", "sb-refresh"}

\* cookies.set(name, value) for every entry of a cookiesToSet list
CookiesSetAll(jar, batch) ==
    [n \in (DOMAIN jar) \cup (DOMAIN batch) |->
        IF n \in DOMAIN batch THEN batch[n] ELSE jar[n]]

NoCookies == <<>>

\* the cookie jars a request arrives with: none, or a session token issued
\* earlier (value 0)
InitialCookies == {NoCookies, [n \in {"sb-access"} |-> 0]}

\* the cookiesToSet list of the k-th setAll invocation of a pass: a non-empty
\* set of cookie names, each with the token value of that invocation
BatchNames == (SUBSET CookieNames) \ {{}}

CookieBatch(names, k) == [n \in names |-> k]

-----------------------------------------------------------------------------
(* Responses *)

NoResponse == [kind |-> "none", location |-> <<>>, cookies |-> NoCookies,
               forwarded |-> NoCookies]

\* NextResponse.next({ request }): continue to the route, forwarding the
\* request's cookies as they are at this moment; no Set-Cookie yet
NextResponseNext(req) ==
    [kind |-> "next", location |-> <<>>, cookies |-> NoCookies,
     forwarded |-> req.cookies]

\* NextResponse.redirect(url): a new response with a Location header
NextResponseRedirect(url) ==
    [kind |-> "redirect", location |-> SerializeUrl(url), cookies |-> NoCookies,
     forwarded |-> NoCookies]

\* createServerClient called without URL or key raises
ThrownResponse == [kind |-> "threw", location |-> <<>>, cookies |-> NoCookies,
                   forwarded |-> NoCookies]

-----------------------------------------------------------------------------
(* The provider *)

NoUser == "none"
Users == {"u1"}

\* what getUser() resolves with: the user of the session, or an error
GetUserOutcomes == {"ok", "error"}

\* faulty variant: the session's user is kept when the call fails
UserOfFailOpen(outcome, sess) == sess

\* const { data: { user } } = await supabase.auth.getUser(): on an error the
\* provider resolves with data.user = null; the error itself is not read
UserOf(outcome, sess) == IF outcome = "error" THEN NoUser ELSE sess

-----------------------------------------------------------------------------
(* The gate: proxy (src/proxy.ts) and updateSession *)

Gates == {"proxy", "updateSession"}

\* faulty variants: the configuration check is missing; proxy always returns early
SkipsRefreshNever(g, cfg) == FALSE

SkipsRefreshAlways(g, cfg) == g = "proxy"

\* the early return of proxy when the provider is not configured;
\* updateSession has no such check
SkipsRefresh(g, cfg) == g = "proxy" /\ ~cfg

\* faulty variant: the login page is listed as protected
ProtectedRoutesWithLogin(g) ==
    IF g = "proxy"
    THEN <<P_root, P_account, P_dashboard, P_profile, P_settings, P_login>>
    ELSE <<P_dashboard, P_profile, P_settings, P_login>>

ProtectedRoutes(g) ==
    IF g = "proxy"
    THEN <<P_root, P_account, P_dashboard, P_profile, P_settings>>
    ELSE <<P_dashboard, P_profile, P_settings>>

\* faulty variant: the root entry matches by prefix like the others
isProtectedRoutePrefixRoot(g, pathname) ==
    \E i \in 1..Len(ProtectedRoutes(g)) :
        StartsWith(pathname, ProtectedRoutes(g)[i])

\* faulty variant: proxy compares every entry of its list for equality
isProtectedRouteProxyExact(g, pathname) ==
    \E i \in 1..Len(ProtectedRoutes(g)) :
        LET route == ProtectedRoutes(g)[i]
        IN  IF g = "proxy"
            THEN pathname = route
            ELSE StartsWith(pathname, route)

isProtectedRoute(g, pathname) ==
    \E i \in 1..Len(ProtectedRoutes(g)) :
        LET route == ProtectedRoutes(g)[i]
        IN  IF g = "proxy" /\ route = P_root
            THEN pathname = P_root
            ELSE StartsWith(pathname, route)

AuthRoutes == <<P_login, P_otp>>

\* faulty variant: the auth routes match by prefix
isAuthRoutePrefix(pathname) ==
    \E i \in 1..Len(AuthRoutes) : StartsWith(pathname, AuthRoutes[i])

isAuthRoute(pathname) == \E i \in 1..Len(AuthRoutes) : pathname = AuthRoutes[i]

\* faulty variant: the redirect parameter is not set
LoginRedirectUrlNoParam(url) == [pathname |-> P_login, query |-> url.query]

\* url = nextUrl.clone(); url.pathname = "/login";
\* url.searchParams.set("redirect", nextUrl.pathname)
LoginRedirectUrl(url) ==
    [pathname |-> P_login, query |-> ParamSet(url.query, K_redirect, url.pathname)]

\* faulty variant: without a redirect parameter the login page is the target
RedirectToDefaultLogin(url) ==
    LET v == ParamGet(url.query, K_redirect)
    IN  IF v = NoParam \/ v = EmptyString THEN P_login ELSE v

\* url.searchParams.get("redirect") || "/"
RedirectTo(url) ==
    LET v == ParamGet(url.query, K_redirect)
    IN  IF v = NoParam \/ v = EmptyString THEN P_root ELSE v

\* faulty variant: the redirect parameter is not deleted
AuthRedirectUrlKeepsParam(url) == [pathname |-> RedirectTo(url), query |-> url.query]

\* url = nextUrl.clone(); url.pathname = redirectTo;
\* url.searchParams.delete("redirect")
AuthRedirectUrl(url) ==
    [pathname |-> RedirectTo(url), query |-> ParamDelete(url.query, K_redirect)]

\* the statements after the awaited getUser(): the two redirects, else the
\* response setAll left in supabaseResponse
Decide(g, req, u, sr) ==
    IF isProtectedRoute(g, req.url.pathname) /\ u = NoUser
    THEN [response |-> NextResponseRedirect(LoginRedirectUrl(req.url)),
          decision |-> "RedirectToLogin"]
    ELSE IF isAuthRoute(req.url.pathname) /\ u # NoUser
    THEN [response |-> NextResponseRedirect(AuthRedirectUrl(req.url)),
          decision |-> "RedirectFromAuth"]
    ELSE [response |-> sr, decision |-> "Allow"]

\* setAll(cookiesToSet): every cookie is set on the request, supabaseResponse
\* is created anew from the request, every cookie is set on it
SetAllRequest(req, batch) == [req EXCEPT !.cookies = CookiesSetAll(req.cookies, batch)]

SetAllResponse(req, batch) ==
    [NextResponseNext(SetAllRequest(req, batch)) EXCEPT !.cookies = batch]

NoRequest == [url |-> [pathname |-> <<>>, query |-> <<>>], cookies |-> NoCookies]

GateInit ==
    /\ configured \in BOOLEAN
    /\ session \in {NoUser} \cup Users
    /\ gate = "proxy"
    /\ gpc = "idle"
    /\ request = NoRequest
    /\ supabaseResponse = NoResponse
    /\ getUserCalls = 0
    /\ getUserResolved = FALSE
    /\ user = NoUser
    /\ authError = FALSE
    /\ passMutations = <<>>
    /\ response = NoResponse
    /\ decision = "none"

\* a request arrives; the gate runs up to its await of getUser()
GateReceive(g, raw, cookies) ==
    /\ gpc = "idle"
    /\ gate' = g
    /\ request' = [url |-> ParseUrl(raw), cookies |-> cookies]
    /\ getUserResolved' = FALSE
    /\ user' = NoUser
    /\ authError' = FALSE
    /\ passMutations' = <<>>
    /\ IF SkipsRefresh(g, configured)
       THEN /\ response' = NextResponseNext(request')
            /\ decision' = "PassThrough"
            /\ supabaseResponse' = NoResponse
            /\ getUserCalls' = 0
            /\ gpc' = "done"
       ELSE IF ~configured
       THEN /\ response' = ThrownResponse
            /\ decision' = "Threw"
            /\ supabaseResponse' = NextResponseNext(request')
            /\ getUserCalls' = 0
            /\ gpc' = "done"
       ELSE /\ response' = NoResponse
            /\ decision' = "none"
            /\ supabaseResponse' = NextResponseNext(request')
            /\ getUserCalls' = 1
            /\ gpc' = "refreshing"
    /\ UNCHANGED <<configured, session, otpVars>>
    /\ UNCHANGED <<flowVars, adminVars>>

\* while getUser() is pending the provider hands a cookiesToSet list to setAll
ProviderSetAll(names) ==
    /\ gpc = "refreshing"
    /\ Len(passMutations) < MaxSetAll
    /\ LET batch == CookieBatch(names, Len(passMutations) + 1)
       IN  /\ request' = SetAllRequest(request, batch)
           /\ supabaseResponse' = SetAllResponse(request, batch)
           /\ passMutations' = Append(passMutations, batch)
    /\ UNCHANGED <<configured, session, gate, gpc, getUserCalls, getUserResolved,
                   user, authError, response, decision, otpVars>>
    /\ UNCHANGED <<flowVars, adminVars>>

\* getUser() resolves and the gate runs to its return
GetUserResolve(outcome) ==
    /\ gpc = "refreshing"
    /\ getUserResolved' = TRUE
    /\ authError' = (outcome = "error")
    /\ user' = UserOf(outcome, session)
    /\ LET d == Decide(gate, request, user', supabaseResponse)
       IN  /\ response' = d.response
           /\ decision' = d.decision
    /\ gpc' = "done"
    /\ UNCHANGED <<configured, session, gate, request, supabaseResponse,
                   getUserCalls, passMutations, otpVars>>
    /\ UNCHANGED <<flowVars, adminVars>>

\* the response is sent; the gate waits for the next request
GateFinish ==
    /\ gpc = "done"
    /\ gpc' = "idle"
    /\ request' = NoRequest
    /\ supabaseResponse' = NoResponse
    /\ getUserCalls' = 0
    /\ getUserResolved' = FALSE
    /\ user' = NoUser
    /\ authError' = FALSE
    /\ passMutations' = <<>>
    /\ response' = NoResponse
    /\ decision' = "none"
    /\ gate' = "proxy"
    /\ UNCHANGED <<configured, session, otpVars>>
    /\ UNCHANGED <<flowVars, adminVars>>

-----------------------------------------------------------------------------
(* More strings: includes, toLowerCase *)

\* s.includes(sub)
Includes(s, sub) ==
    \E i \in 0..(Len(s) - Len(sub)) : SubSeq(s, i + 1, i + Len(sub)) = sub

UpperCase == <<"A", "B", "C", "D", "E", "F", "G", "H", "I", "J", "K", "L", "M", "N", "O", "P", "Q", "R", "S", "T", "U", "V", "W", "X", "Y", "Z">>
LowerCase == <<"a", "b", "c", "d", "e", "f", "g", "h", "i", "j", "k", "l", "m", "n", "o", "p", "q", "r", "s", "t", "u", "v", "w", "x", "y", "z">>
DigitChars == {"0", "1", "2", "3", "4", "5", "6", "7", "8", "9"}
LetterChars == {UpperCase[i] : i \in 1..26} \cup {LowerCase[i] : i \in 1..26}

LowerChar(c) ==
    IF \E i \in 1..26 : UpperCase[i] = c
    THEN LowerCase[CHOOSE i \in 1..26 : UpperCase[i] = c]
    ELSE c

\* s.toLowerCase()
ToLowerCase(s) == [i \in 1..Len(s) |-> LowerChar(s[i])]

-----------------------------------------------------------------------------
(* Validation schemas (lib/validations/auth) *)

\* a fixed message of the program is a one-element sequence holding its text;
\* a message passed on from the provider is its sequence of characters
MsgInvalidEmail == <<"Please enter a valid email address">>
MsgOtpLength == <<"OTP must be exactly 6 digits">>
MsgOtpNumbers == <<"OTP must contain only numbers">>

AllIn(s, chars) == \A i \in 1..Len(s) : s[i] \in chars

\* the local part of z.email(): [A-Za-z0-9_'+\-\.]*[A-Za-z0-9_+-]
LocalPartOk(l) ==
    /\ l # <<>>
    /\ AllIn(l, LetterChars \cup DigitChars \cup {"_", "'", "+", "-", "."})
    /\ l[Len(l)] \in LetterChars \cup DigitChars \cup {"_", "+", "-"}

\* the domain of z.email(): ([A-Za-z0-9][A-Za-z0-9\-]*\.)+[A-Za-z]{2,}
DomainOk(d) ==
    LET labels == Split(d, ".")
        n == Len(labels)
    IN  /\ n >= 2
        /\ \A i \in 1..(n - 1) :
              /\ labels[i] # <<>>
              /\ labels[i][1] \in LetterChars \cup DigitChars
              /\ AllIn(labels[i], LetterChars \cup DigitChars \cup {"-"})
        /\ Len(labels[n]) >= 2
        /\ AllIn(labels[n], LetterChars)

\* z.email(...): not starting with ".", no "..", local part, "@", domain
EmailFormatOk(e) ==
    LET parts == Split(e, "@")
    IN  /\ Len(parts) = 2
        /\ e[1] # "."
        /\ ~Includes(e, <<".", ".">>)
        /\ LocalPartOk(parts[1])
        /\ DomainOk(parts[2])

\* faulty variant: only the "@" is looked for
emailSchemaAtOnly(e) ==
    IF Includes(e, <<"@">>)
    THEN [success |-> TRUE, data |-> e, message |-> <<>>]
    ELSE [success |-> FALSE, data |-> <<>>, message |-> MsgInvalidEmail]

\* emailSchema.safeParse(email)
emailSchema(e) ==
    IF e # <<>> /\ EmailFormatOk(e)
    THEN [success |-> TRUE, data |-> e, message |-> <<>>]
    ELSE [success |-> FALSE, data |-> <<>>, message |-> MsgInvalidEmail]

\* faulty variant: the digits are not checked
otpTokenSchemaLengthOnly(t) ==
    IF Len(t) # 6
    THEN [success |-> FALSE, data |-> <<>>, message |-> MsgOtpLength]
    ELSE [success |-> TRUE, data |-> t, message |-> <<>>]

\* otpTokenSchema.safeParse(token): length 6, then /^\d+$/
otpTokenSchema(t) ==
    IF Len(t) # 6
    THEN [success |-> FALSE, data |-> <<>>, message |-> MsgOtpLength]
    ELSE IF ~(t # <<>> /\ AllIn(t, DigitChars))
    THEN [success |-> FALSE, data |-> <<>>, message |-> MsgOtpNumbers]
    ELSE [success |-> TRUE, data |-> t, message |-> <<>>]

-----------------------------------------------------------------------------
(* Inputs of the OTP flow *)

E_u == <<"u", "@", "x", ".", "c", "o">>
E_noTld == <<"u", "@", "x">>
E_noAt == <<"u", "x", ".", "c", "o">>
E_plus == <<"U", "+", "a", "@", "x", ".", "c", "o">>
E_dot == <<".", "u", "@", "x", ".", "c", "o">>

Emails == {E_u, E_plus, E_noTld, E_noAt, E_dot, EmptyString}

T_good == <<"1", "2", "3", "4", "5", "6">>
T_zero == <<"0", "0", "0", "0", "0", "0">>
T_alpha == <<"1", "2", "a", "4", "5", "6">>
T_five == <<"1", "2", "3", "4", "5">>
T_seven == <<"1", "2", "3", "4", "5", "6", "7">>

Tokens == {T_good, T_zero, T_alpha, T_five, T_seven, EmptyString}

\* error messages of the provider
M_signups == <<"S", "i", "g", "n", "u", "p", "s", " ", "n", "o", "t", " ", "a", "l", "l", "o", "w", "e", "d", " ", "f", "o", "r", " ", "o", "t", "p">>
M_rate == <<"e", "m", "a", "i", "l", " ", "r", "a", "t", "e", " ", "l", "i", "m", "i", "t", " ", "e", "x", "c", "e", "e", "d", "e", "d">>
M_fetch == <<"f", "e", "t", "c", "h", " ", "f", "a", "i", "l", "e", "d">>
M_expiredInvalid == <<"T", "o", "k", "e", "n", " ", "h", "a", "s", " ", "e", "x", "p", "i", "r", "e", "d", " ", "o", "r", " ", "i", "s", " ", "i", "n", "v", "a", "l", "i", "d">>
M_invalid == <<"i", "n", "v", "a", "l", "i", "d", " ", "o", "t", "p">>

NoError == <<"ok">>

M_signupRate == <<"s", "i", "g", "n", "u", "p", " ", "r", "a", "t", "e", " ", "l", "i", "m", "i", "t">>
M_rateCap == <<"R", "a", "t", "e", " ", "l", "i", "m", "i", "t">>
M_userNotFound == <<"U", "s", "e", "r", " ", "n", "o", "t", " ", "f", "o", "u", "n", "d">>
M_invalidExpired == <<"i", "n", "v", "a", "l", "i", "d", " ", "o", "r", " ", "e", "x", "p", "i", "r", "e", "d">>
M_expiredCap == <<"E", "x", "p", "i", "r", "e", "d">>

SendOutcomes == {NoError, M_signups, M_rate, M_fetch}
VerifyOutcomes == {NoError, M_expiredInvalid, M_invalid, M_fetch}

-----------------------------------------------------------------------------
(* The OTP challenge flow (lib/actions/auth.ts) *)

OTP_SESSION_MAX_AGE == 600

NoCookie == [value |-> <<>>, expires |-> 0]

MsgSignupDisabled ==
    <<"Pendaftaran tidak dibuka. Silakan hubungi administrator jika Anda memerlukan akses.">>
MsgRateLimit == <<"Too many requests. Please wait a moment before trying again.">>
MsgSessionExpired == <<"Session expired. Please request a new verification code.">>
MsgCodeExpired == <<"Verification code has expired. Please request a new one.">>
MsgCodeInvalid == <<"Invalid verification code. Please check and try again.">>
MsgSent == <<"Verification code sent to your email">>
MsgVerified == <<"Successfully verified">>

\* faulty variant: a failure without its error
FailureWithoutError(err) == [success |-> FALSE, error |-> <<>>, message |-> <<>>]

Failure(err) == [success |-> FALSE, error |-> err, message |-> <<>>]
Success(msg) == [success |-> TRUE, error |-> <<>>, message |-> msg]
NoResult == [success |-> FALSE, error |-> <<>>, message |-> <<"none">>]

\* the cookie the browser sends with a request at time now: a cookie past its
\* Max-Age is not sent
CookieSent(cookie, now) ==
    IF cookie # NoCookie /\ now < cookie.expires
    THEN DecodeComponent(cookie.value)
    ELSE <<>>

\* getOTPSessionEmail(): session?.value || null
NoEmail == <<"null">>

getOTPSessionEmail(cookie, now) ==
    LET v == CookieSent(cookie, now)
    IN  IF v = <<>> THEN NoEmail ELSE v

\* faulty variants: the email is stored in lower case; the cookie lives an hour
SetOTPSessionLowerCase(email, now) ==
    [value |-> EncodeComponent(ToLowerCase(email)),
     expires |-> now + OTP_SESSION_MAX_AGE]

SetOTPSessionHour(email, now) ==
    [value |-> EncodeComponent(email), expires |-> now + 3600]

\* cookieStore.set(OTP_SESSION_COOKIE, email, { maxAge: OTP_SESSION_MAX_AGE }):
\* the browser keeps the encoded value until now + maxAge
SetOTPSession(email, now) ==
    [value |-> EncodeComponent(email), expires |-> now + OTP_SESSION_MAX_AGE]

\* faulty variant: the cookie is left as it is
ClearOTPSessionKeeps(cookie) == cookie

\* clearOTPSession(): cookieStore.delete(OTP_SESSION_COOKIE)
ClearOTPSession(cookie) == NoCookie

\* the error branch of signInWithOTP
SendErrorMessage(msg) ==
    LET lower == ToLowerCase(msg)
    IN  IF \/ Includes(lower, <<"s", "i", "g", "n", "u", "p", "s", " ", "n", "o", "t", " ", "a", "l", "l", "o", "w", "e", "d">>)
           \/ Includes(lower, <<"s", "i", "g", "n", "u", "p">>)
           \/ Includes(lower, <<"u", "s", "e", "r", " ", "n", "o", "t", " ", "f", "o", "u", "n", "d">>)
           \/ /\ Includes(lower, <<"o", "t", "p">>)
              /\ Includes(lower, <<"d", "i", "s", "a", "b", "l", "e", "d">>)
        THEN MsgSignupDisabled
        ELSE IF Includes(msg, <<"r", "a", "t", "e", " ", "l", "i", "m", "i", "t">>)
        THEN MsgRateLimit
        ELSE msg

\* the error branch of verifyOTP
VerifyErrorMessageInvalidFirst(msg) ==
    IF Includes(msg, <<"i", "n", "v", "a", "l", "i", "d">>)
    THEN MsgCodeInvalid
    ELSE IF Includes(msg, <<"e", "x", "p", "i", "r", "e", "d">>)
    THEN MsgCodeExpired
    ELSE msg

VerifyErrorMessage(msg) ==
    IF Includes(msg, <<"e", "x", "p", "i", "r", "e", "d">>)
    THEN MsgCodeExpired
    ELSE IF Includes(msg, <<"i", "n", "v", "a", "l", "i", "d">>)
    THEN MsgCodeInvalid
    ELSE msg

\* the user the provider signs in for a verified email
UserOfEmail(email) == "u1"

\* faulty variant: the provider is left to create the account
SignInWithOTPCreatesUser(email, outcome, cookie, now) ==
    LET v == emailSchema(email)
        call == [fn |-> "signInWithOtp", email |-> v.data, shouldCreateUser |-> TRUE]
    IN  IF ~v.success
        THEN [result |-> Failure(v.message), calls |-> <<>>, cookie |-> cookie]
        ELSE IF outcome # NoError
        THEN [result |-> Failure(SendErrorMessage(outcome)), calls |-> <<call>>,
              cookie |-> cookie]
        ELSE [result |-> Success(MsgSent), calls |-> <<call>>,
              cookie |-> SetOTPSession(v.data, now)]

\* faulty variant: the cookie is written before the provider is called
SignInWithOTPWritesFirst(email, outcome, cookie, now) ==
    LET v == emailSchema(email)
        call == [fn |-> "signInWithOtp", email |-> v.data, shouldCreateUser |-> FALSE]
    IN  IF ~v.success
        THEN [result |-> Failure(v.message), calls |-> <<>>, cookie |-> cookie]
        ELSE IF outcome # NoError
        THEN [result |-> Failure(SendErrorMessage(outcome)), calls |-> <<call>>,
              cookie |-> SetOTPSession(v.data, now)]
        ELSE [result |-> Success(MsgSent), calls |-> <<call>>,
              cookie |-> SetOTPSession(v.data, now)]

\* faulty variant: a cookie that is still there is not overwritten
SignInWithOTPKeepsPending(email, outcome, cookie, now) ==
    LET v == emailSchema(email)
        call == [fn |-> "signInWithOtp", email |-> v.data, shouldCreateUser |-> FALSE]
    IN  IF ~v.success
        THEN [result |-> Failure(v.message), calls |-> <<>>, cookie |-> cookie]
        ELSE IF outcome # NoError
        THEN [result |-> Failure(SendErrorMessage(outcome)), calls |-> <<call>>,
              cookie |-> cookie]
        ELSE [result |-> Success(MsgSent), calls |-> <<call>>,
              cookie |-> IF getOTPSessionEmail(cookie, now) # NoEmail
                         THEN cookie
                         ELSE SetOTPSession(v.data, now)]

\* signInWithOTP(email), with the provider answering outcome: the result, the
\* provider calls made and the cookie left
SignInWithOTPResult(email, outcome, cookie, now) ==
    LET v == emailSchema(email)
        call == [fn |-> "signInWithOtp", email |-> v.data, shouldCreateUser |-> FALSE]
    IN  IF ~v.success
        THEN [result |-> Failure(v.message), calls |-> <<>>, cookie |-> cookie]
        ELSE IF outcome # NoError
        THEN [result |-> Failure(SendErrorMessage(outcome)), calls |-> <<call>>,
              cookie |-> cookie]
        ELSE [result |-> Success(MsgSent), calls |-> <<call>>,
              cookie |-> SetOTPSession(v.data, now)]

\* faulty variant: the missing email is not checked
VerifyOTPNoSessionCheck(token, outcome, cookie, now) ==
    LET email == getOTPSessionEmail(cookie, now)
        t == otpTokenSchema(token)
        call == [fn |-> "verifyOtp", email |-> email, token |-> t.data, type |-> "email"]
    IN  IF ~t.success
        THEN [result |-> Failure(t.message), calls |-> <<>>, cookie |-> cookie,
              signedIn |-> FALSE]
        ELSE IF outcome # NoError
        THEN [result |-> Failure(VerifyErrorMessage(outcome)), calls |-> <<call>>,
              cookie |-> cookie, signedIn |-> FALSE]
        ELSE [result |-> Success(MsgVerified), calls |-> <<call>>,
              cookie |-> ClearOTPSession(cookie), signedIn |-> TRUE]

\* faulty variant: the cookie is deleted on a provider error too
VerifyOTPClearsOnError(token, outcome, cookie, now) ==
    LET email == getOTPSessionEmail(cookie, now)
        t == otpTokenSchema(token)
        call == [fn |-> "verifyOtp", email |-> email, token |-> t.data, type |-> "email"]
    IN  IF email = NoEmail
        THEN [result |-> Failure(MsgSessionExpired), calls |-> <<>>, cookie |-> cookie,
              signedIn |-> FALSE]
        ELSE IF ~t.success
        THEN [result |-> Failure(t.message), calls |-> <<>>, cookie |-> cookie,
              signedIn |-> FALSE]
        ELSE IF outcome # NoError
        THEN [result |-> Failure(VerifyErrorMessage(outcome)), calls |-> <<call>>,
              cookie |-> NoCookie, signedIn |-> FALSE]
        ELSE [result |-> Success(MsgVerified), calls |-> <<call>>,
              cookie |-> ClearOTPSession(cookie), signedIn |-> TRUE]

\* faulty variant: the cookie is not deleted after a successful verification
VerifyOTPKeepsOnSuccess(token, outcome, cookie, now) ==
    LET email == getOTPSessionEmail(cookie, now)
        t == otpTokenSchema(token)
        call == [fn |-> "verifyOtp", email |-> email, token |-> t.data, type |-> "email"]
    IN  IF email = NoEmail
        THEN [result |-> Failure(MsgSessionExpired), calls |-> <<>>, cookie |-> cookie,
              signedIn |-> FALSE]
        ELSE IF ~t.success
        THEN [result |-> Failure(t.message), calls |-> <<>>, cookie |-> cookie,
              signedIn |-> FALSE]
        ELSE IF outcome # NoError
        THEN [result |-> Failure(VerifyErrorMessage(outcome)), calls |-> <<call>>,
              cookie |-> cookie, signedIn |-> FALSE]
        ELSE [result |-> Success(MsgVerified), calls |-> <<call>>,
              cookie |-> cookie, signedIn |-> TRUE]

\* verifyOTP(token), with the provider answering outcome
VerifyOTPResult(token, outcome, cookie, now) ==
    LET email == getOTPSessionEmail(cookie, now)
        t == otpTokenSchema(token)
        call == [fn |-> "verifyOtp", email |-> email, token |-> t.data, type |-> "email"]
    IN  IF email = NoEmail
        THEN [result |-> Failure(MsgSessionExpired), calls |-> <<>>, cookie |-> cookie,
              signedIn |-> FALSE]
        ELSE IF ~t.success
        THEN [result |-> Failure(t.message), calls |-> <<>>, cookie |-> cookie,
              signedIn |-> FALSE]
        ELSE IF outcome # NoError
        THEN [result |-> Failure(VerifyErrorMessage(outcome)), calls |-> <<call>>,
              cookie |-> cookie, signedIn |-> FALSE]
        ELSE [result |-> Success(MsgVerified), calls |-> <<call>>,
              cookie |-> ClearOTPSession(cookie), signedIn |-> TRUE]

NoOp == [op |-> "none", arg |-> <<>>]

NoIssue == [email |-> <<>>, at |-> 0, replaced |-> <<>>]

\* the provider's record of the OTP it issued for a signInWithOtp call it
\* accepted
IssuedAfter(r, prev, pending, now) ==
    IF r.result.success
    THEN [email |-> r.calls[1].email, at |-> now, replaced |-> pending]
    ELSE prev

OtpInit ==
    /\ clock = 0
    /\ otpCookie = NoCookie
    /\ otpResult = NoResult
    /\ otpCalls = <<>>
    /\ lastOp = NoOp
    /\ issued = NoIssue
    /\ providerError = NoError

\* the server action signInWithOTP, called by the login form and by resend
SignInWithOTPServer(email, outcome) ==
    LET r == SignInWithOTPResult(email, outcome, otpCookie, clock)
    IN  /\ otpResult' = r.result
        /\ otpCalls' = r.calls
        /\ otpCookie' = r.cookie
        /\ lastOp' = [op |-> "signInWithOTP", arg |-> email]
        /\ issued' = IssuedAfter(r, issued, getOTPSessionEmail(otpCookie, clock), clock)
        /\ providerError' = IF r.calls = <<>> THEN NoError ELSE outcome
        /\ UNCHANGED <<clock, gateVars, adminVars>>

SignInWithOTP(email, outcome) ==
    /\ SignInWithOTPServer(email, outcome)
    /\ UNCHANGED flowVars

\* the server action verifyOTP; a verification the provider accepts signs the
\* client in
VerifyOTPServer(token, outcome) ==
    LET r == VerifyOTPResult(token, outcome, otpCookie, clock)
    IN  /\ otpResult' = r.result
        /\ otpCalls' = r.calls
        /\ otpCookie' = r.cookie
        /\ lastOp' = [op |-> "verifyOTP", arg |-> token]
        /\ session' = IF r.signedIn THEN UserOfEmail(getOTPSessionEmail(otpCookie, clock)) ELSE session
        /\ providerError' = IF r.calls = <<>> THEN NoError ELSE outcome
        /\ UNCHANGED <<clock, issued, configured, gate, gpc, request,
                       supabaseResponse, getUserCalls, getUserResolved, user,
                       authError, passMutations, response, decision, adminVars>>

VerifyOTP(token, outcome) ==
    /\ VerifyOTPServer(token, outcome)
    /\ UNCHANGED flowVars

\* time passes
Tick ==
    /\ clock + TickStep <= MaxClock
    /\ clock' = clock + TickStep
    /\ UNCHANGED <<otpCookie, otpResult, otpCalls, lastOp, issued, providerError, gateVars>>
    /\ UNCHANGED <<flowVars, adminVars>>

OtpNext ==
    \/ \E e \in Emails, o \in SendOutcomes : SignInWithOTP(e, o)
    \/ \E t \in Tokens, o \in VerifyOutcomes : VerifyOTP(t, o)
    \/ Tick

\* clearOTPSession() called on its own; lastOp counts the calls in a row
ClearOTPSessionCall ==
    /\ otpCookie' = ClearOTPSession(otpCookie)
    /\ lastOp' = [op |-> "clearOTPSession",
                  arg |-> IF lastOp.op = "clearOTPSession" THEN <<"2">> ELSE <<"1">>]
    /\ UNCHANGED <<clock, otpResult, otpCalls, issued, providerError, gateVars>>
    /\ UNCHANGED <<flowVars, adminVars>>

ClearNext ==
    \/ \E e \in Emails, o \in SendOutcomes : SignInWithOTP(e, o)
    \/ \E t \in Tokens, o \in VerifyOutcomes : VerifyOTP(t, o)
    \/ Tick
    \/ ClearOTPSessionCall

-----------------------------------------------------------------------------
(* The browser: navigations through proxy, the login form and the OTP form *)

NoUrl == [pathname |-> <<>>, query |-> <<>>]

\* the redirects a browser follows for one navigation before it gives up
MaxHops == 20

NoBrowser == [url |-> NoUrl, status |-> "closed", user |-> NoUser, hops |-> 0]

FlowInit ==
    /\ browser = NoBrowser
    /\ origin = <<>>
    /\ formEmail = <<>>
    /\ resendCooldown = 0
    /\ cooldownTimer = FALSE

\* the URLs the user opens by hand
FlowUrls ==
    {SerializeUrl([pathname |-> p, query |-> <<>>]) :
        p \in {P_root, P_dashboard, P_login, P_otp, P_x}}

\* the user opens a URL
BrowserVisit(raw) ==
    /\ browser' = [url |-> ParseUrl(raw), status |-> "loading", user |-> NoUser,
                   hops |-> 0]
    /\ origin' = <<>>
    /\ formEmail' = <<>>
    /\ resendCooldown' = 0
    /\ cooldownTimer' = FALSE
    /\ UNCHANGED <<gateVars, otpVars, adminVars>>

\* the `email` state of OTPForm after its effect has run: the session email,
\* or the initial "" when there is none
OTPFormEmail(cookie, now) ==
    LET sessionEmail == getOTPSessionEmail(cookie, now)
    IN  IF sessionEmail = NoEmail \/ sessionEmail = <<>> THEN <<>> ELSE sessionEmail

\* proxy answers the pending navigation: a redirect is followed, anything
\* else loads the page; the page /otp mounts OTPForm, and the form that was
\* mounted before is gone with its state
BrowserGate(outcome) ==
    /\ browser.status = "loading"
    /\ browser.hops < MaxHops
    /\ LET req == [url |-> browser.url, cookies |-> NoCookies]
           u == UserOf(outcome, session)
           d == Decide("proxy", req, u, NextResponseNext(req))
       IN  IF d.response.kind = "redirect"
           THEN /\ browser' = [url |-> ParseUrl(d.response.location),
                               status |-> "loading", user |-> u,
                               hops |-> browser.hops + 1]
                /\ origin' = IF d.decision = "RedirectToLogin"
                             THEN browser.url.pathname
                             ELSE origin
                /\ formEmail' = <<>>
           ELSE /\ browser' = [browser EXCEPT !.status = "loaded", !.user = u]
                /\ origin' = origin
                /\ formEmail' = IF browser.url.pathname = P_otp
                                THEN OTPFormEmail(otpCookie, clock)
                                ELSE <<>>
    /\ resendCooldown' = 0
    /\ cooldownTimer' = FALSE
    /\ UNCHANGED <<gateVars, otpVars, adminVars>>

\* handleEmailSubmit of LoginForm: router.push("/otp") when the action
\* succeeded
AfterEmailSubmit(result, b) ==
    IF result.success
    THEN [url |-> [pathname |-> P_otp, query |-> <<>>], status |-> "loading",
          user |-> b.user, hops |-> 0]
    ELSE b

\* the login form is submitted
HandleEmailSubmit(email, outcome) ==
    /\ browser.status = "loaded"
    /\ browser.url.pathname = P_login
    /\ SignInWithOTPServer(email, outcome)
    /\ browser' = AfterEmailSubmit(otpResult', browser)
    /\ UNCHANGED <<origin, formEmail, resendCooldown, cooldownTimer>>

\* handleVerify of OTPForm after the action returned: router.push("/") when
\* it succeeded
AfterVerify(result, b) ==
    IF result.success
    THEN [url |-> [pathname |-> P_root, query |-> <<>>], status |-> "loading",
          user |-> b.user, hops |-> 0]
    ELSE b

\* the OTP form is submitted; without an email or with a code that is not 6
\* characters long the handler returns before the action is called
HandleVerify(token, outcome) ==
    /\ browser.status = "loaded"
    /\ browser.url.pathname = P_otp
    /\ formEmail # <<>>
    /\ Len(token) = 6
    /\ VerifyOTPServer(token, outcome)
    /\ browser' = AfterVerify(otpResult', browser)
    /\ UNCHANGED <<origin, formEmail, resendCooldown, cooldownTimer>>

\* setResendCooldown(60) of startCooldown
RESEND_COOLDOWN == 60

\* faulty variant: the handler does not look at the email and the cooldown
ResendAllowedAlways(email, cooldown) == TRUE

\* handleResend returns at once unless there is an email and no cooldown
ResendAllowed(email, cooldown) == ~(email = <<>> \/ cooldown > 0)

\* the resend button of OTPForm: the action is called with the form's email,
\* and startCooldown runs when it succeeded
HandleResend(outcome) ==
    /\ browser.status = "loaded"
    /\ browser.url.pathname = P_otp
    /\ ResendAllowed(formEmail, resendCooldown)
    /\ SignInWithOTPServer(formEmail, outcome)
    /\ resendCooldown' = IF otpResult'.success THEN RESEND_COOLDOWN ELSE resendCooldown
    /\ cooldownTimer' = (otpResult'.success \/ cooldownTimer)
    /\ UNCHANGED <<browser, origin, formEmail>>

\* the state updater of the interval: prev <= 1 gives 0, else prev - 1
CooldownAfterTick(prev) == IF prev <= 1 THEN 0 ELSE prev - 1

\* one firing of the interval, a second after the last; at prev <= 1 the
\* interval is cleared
CooldownTick ==
    /\ cooldownTimer
    /\ resendCooldown' = CooldownAfterTick(resendCooldown)
    /\ cooldownTimer' = ~(resendCooldown <= 1)
    /\ UNCHANGED <<browser, origin, formEmail, gateVars, otpVars, adminVars>>

FlowNext ==
    \/ \E raw \in FlowUrls : BrowserVisit(raw)
    \/ \E o \in GetUserOutcomes : BrowserGate(o)
    \/ \E e \in Emails, o \in SendOutcomes : HandleEmailSubmit(e, o)
    \/ \E t \in Tokens, o \in VerifyOutcomes : HandleVerify(t, o)
    \/ \E o \in SendOutcomes : HandleResend(o)

\* the OTP form with its timer: the client comes to /otp through the login
\* form or opens it by hand
CooldownUrls ==
    {SerializeUrl([pathname |-> p, query |-> <<>>]) : p \in {P_login, P_otp}}

CooldownNext ==
    \/ \E raw \in CooldownUrls : BrowserVisit(raw)
    \/ \E o \in GetUserOutcomes : BrowserGate(o)
    \/ \E e \in Emails, o \in SendOutcomes : HandleEmailSubmit(e, o)
    \/ \E o \in SendOutcomes : HandleResend(o)
    \/ CooldownTick

-----------------------------------------------------------------------------
(* Milestones: the admin check and the three mutations *)

\* the users of the provider; only u1 can have an admins row
MilestoneUsers == {"u1", "u2"}
AdminSets == {{}, {"u1"}}

\* rows the milestones table holds at most
MaxMilestones == 1

Id_a ==
    <<"1", "1", "1", "1", "1", "1", "1", "1", "-",
    "1", "1", "1", "1", "-",
    "4", "1", "1", "1", "-",
    "8", "1", "1", "1", "-",
    "1", "1", "1", "1", "1", "1", "1", "1", "1", "1", "1", "1">>

Id_b ==
    <<"2", "2", "2", "2", "2", "2", "2", "2", "-",
    "2", "2", "2", "2", "-",
    "4", "2", "2", "2", "-",
    "9", "2", "2", "2", "-",
    "2", "2", "2", "2", "2", "2", "2", "2", "2", "2", "2", "2">>

\* a version digit 0 and a string that is no UUID at all
Id_v0 ==
    <<"3", "3", "3", "3", "3", "3", "3", "3", "-",
    "3", "3", "3", "3", "-",
    "0", "3", "3", "3", "-",
    "8", "3", "3", "3", "-",
    "3", "3", "3", "3", "3", "3", "3", "3", "3", "3", "3", "3">>

Id_short == <<"1", "2", "3", "4">>

\* the ids the table gives to new rows, and the ids the actions are called with
MilestoneIds == <<Id_a, Id_b>>
InputIds == {Id_a, Id_b, Id_v0, Id_short}

Title_t == <<"t">>
Title_s == <<"s">>
Date_ok == <<"2", "0", "2", "4", "-", "0", "1", "-", "3", "1">>
Date_bad == <<"3", "1", "/", "0", "1", "/", "2", "0", "2", "4">>

\* a field the caller left out
NoField == <<"undefined">>

CreateInputs ==
    {[title |-> t, event_date |-> d] : t \in {Title_t, EmptyString}, d \in {Date_ok, Date_bad}}

UpdateInputs ==
    {[id |-> i, title |-> t] : i \in InputIds, t \in {Title_s, EmptyString, NoField}}

StoreOutcomes == {"ok", "error"}

MsgUnauthorized == <<"Unauthorized. Admin access required.">>
MsgTitleRequired == <<"Title is required">>
MsgInvalidDate == <<"Invalid date format">>
MsgInvalidId == <<"Invalid milestone ID">>
MsgTooSmall == <<"Too small: expected string to have >=1 characters">>
MsgTooBig == <<"Too big: expected string to have <=200 characters">>
MsgCreateFailed == <<"Failed to create milestone">>
MsgUpdateFailed == <<"Failed to update milestone">>
MsgDeleteFailed == <<"Failed to delete milestone">>

NoData == [id |-> <<>>, title |-> <<>>, created_by |-> NoUser]

MFailure(err) == [success |-> FALSE, error |-> err, data |-> NoData]
MSuccess(data) == [success |-> TRUE, error |-> <<>>, data |-> data]
NoMResult == [success |-> FALSE, error |-> <<>>, data |-> NoData]

HexChars ==
    DigitChars \cup {"a", "b", "c", "d", "e", "f", "A", "B", "C", "D", "E", "F"}

\* z.string().uuid(): 8-4-4-4-12 hexadecimal digits with a version digit 1-8
\* and a variant digit 8, 9, a or b; or the nil or the max UUID
IsUuid(s) ==
    /\ Len(s) = 36
    /\ \A i \in {9, 14, 19, 24} : s[i] = "-"
    /\ \/ \A i \in (1..36) \ {9, 14, 19, 24} :
              IF i = 15 THEN s[i] \in {"1", "2", "3", "4", "5", "6", "7", "8"}
              ELSE IF i = 20 THEN s[i] \in {"8", "9", "a", "b", "A", "B"}
              ELSE s[i] \in HexChars
       \/ \A i \in (1..36) \ {9, 14, 19, 24} : s[i] = "0"
       \/ \A i \in (1..36) \ {9, 14, 19, 24} : s[i] = "f"

\* /^\d{4}-\d{2}-\d{2}$/
DateFormatOk(d) ==
    /\ Len(d) = 10
    /\ d[5] = "-"
    /\ d[8] = "-"
    /\ \A i \in (1..10) \ {5, 8} : d[i] \in DigitChars

\* createMilestoneSchema.safeParse(input): the first issue, in the order of
\* the keys
createMilestoneSchema(input) ==
    IF input.title = <<>>
    THEN [success |-> FALSE, data |-> input, message |-> MsgTitleRequired]
    ELSE IF Len(input.title) > 200
    THEN [success |-> FALSE, data |-> input, message |-> MsgTooBig]
    ELSE IF ~DateFormatOk(input.event_date)
    THEN [success |-> FALSE, data |-> input, message |-> MsgInvalidDate]
    ELSE [success |-> TRUE, data |-> input, message |-> <<>>]

\* updateMilestoneSchema.safeParse(input), for the fields id and title
updateMilestoneSchema(input) ==
    IF ~IsUuid(input.id)
    THEN [success |-> FALSE, data |-> input, message |-> MsgInvalidId]
    ELSE IF input.title # NoField /\ input.title = <<>>
    THEN [success |-> FALSE, data |-> input, message |-> MsgTooSmall]
    ELSE IF input.title # NoField /\ Len(input.title) > 200
    THEN [success |-> FALSE, data |-> input, message |-> MsgTooBig]
    ELSE [success |-> TRUE, data |-> input, message |-> <<>>]

\* faulty variant: every signed-in user counts as an admin
isAdminAnyUser(u, adm) == u # NoUser

\* isAdmin(), u being data.user of its getUser() call: a user, and a row of
\* admins with that user_id
isAdmin(u, adm) == u # NoUser /\ u \in adm

NoPending == [data |-> [title |-> <<>>, event_date |-> <<>>], checked |-> NoUser]

\* what a page component answers: its JSX, or the redirect it throws
Render == [kind |-> "render", location |-> <<>>]
Redirect(url) == [kind |-> "redirect", location |-> url]
UnauthorizedUrl == <<"/", "?", "e", "r", "r", "o", "r", "=", "u", "n", "a", "u", "t", "h", "o", "r", "i", "z", "e", "d">>

NoPage == [name |-> "none", checks |-> <<>>, answer |-> Redirect(<<>>)]

AdminInit ==
    /\ admins = {}
    /\ milestones = {}
    /\ mResult = NoMResult
    /\ mCalls = <<>>
    /\ mOp = [op |-> "none", arg |-> <<>>]
    /\ mPending = NoPending
    /\ page = NoPage

MilestoneInit ==
    /\ admins \in AdminSets
    /\ milestones = {}
    /\ mResult = NoMResult
    /\ mCalls = <<>>
    /\ mOp = [op |-> "none", arg |-> <<>>]
    /\ mPending = NoPending
    /\ page = NoPage

gateRest == <<configured, gate, gpc, request, supabaseResponse, getUserCalls,
              getUserResolved, user, authError, passMutations, response, decision>>

\* the session of the caller changes: sign-in, sign-out or expiry elsewhere
SessionChange(u) ==
    /\ session # u
    /\ session' = u
    /\ UNCHANGED <<gateRest, otpVars, flowVars, adminVars>>

\* createMilestone up to its second createClient(): the admin check, then the
\* validation
CreateMilestoneCheck(input, outcome) ==
    /\ mPending = NoPending
    /\ Cardinality(milestones) < MaxMilestones
    /\ mOp' = [op |-> "createMilestone", arg |-> input]
    /\ mCalls' = <<>>
    /\ LET u == UserOf(outcome, session)
           v == createMilestoneSchema(input)
       IN  IF ~isAdmin(u, admins)
           THEN mResult' = MFailure(MsgUnauthorized) /\ mPending' = NoPending
           ELSE IF ~v.success
           THEN mResult' = MFailure(v.message) /\ mPending' = NoPending
           ELSE mResult' = NoMResult /\ mPending' = [data |-> v.data, checked |-> u]
    /\ UNCHANGED <<admins, milestones, page, gateVars, otpVars, flowVars>>

\* the id the table gives to the next row
NextId == LET used == {m.id : m \in milestones}
          IN  MilestoneIds[CHOOSE i \in 1..Len(MilestoneIds) :
                              /\ MilestoneIds[i] \notin used
                              /\ \A j \in 1..(i - 1) : MilestoneIds[j] \in used]

\* createMilestone from its own getUser() on: the insert with created_by
\* user?.id, and the result
CreateMilestoneInsert(outcome, store) ==
    /\ mPending # NoPending
    /\ LET u == UserOf(outcome, session)
           row == [id |-> NextId, title |-> mPending.data.title, created_by |-> u]
       IN  /\ mCalls' = <<[fn |-> "insert", row |-> row]>>
           /\ IF store = "error"
              THEN mResult' = MFailure(MsgCreateFailed) /\ milestones' = milestones
              ELSE mResult' = MSuccess(row) /\ milestones' = milestones \cup {row}
    /\ mPending' = NoPending
    /\ UNCHANGED <<admins, mOp, page, gateVars, otpVars, flowVars>>

\* the row after .update(updateData): the title is set when one is given
UpdatedRow(m, data) ==
    IF data.title # NoField /\ data.title # <<>>
    THEN [m EXCEPT !.title = data.title]
    ELSE m

\* updateMilestone: the admin check, the validation, the update of the row
\* with the id; .single() fails when no row came back
UpdateMilestone(input, outcome, store) ==
    /\ mPending = NoPending
    /\ mOp' = [op |-> "updateMilestone", arg |-> input]
    /\ LET u == UserOf(outcome, session)
           v == updateMilestoneSchema(input)
           hit == {m \in milestones : m.id = input.id}
       IN  IF ~isAdmin(u, admins)
           THEN /\ mResult' = MFailure(MsgUnauthorized)
                /\ mCalls' = <<>>
                /\ milestones' = milestones
           ELSE IF ~v.success
           THEN /\ mResult' = MFailure(v.message)
                /\ mCalls' = <<>>
                /\ milestones' = milestones
           ELSE /\ mCalls' = <<[fn |-> "update", id |-> input.id]>>
                /\ IF store = "error" \/ hit = {}
                   THEN /\ mResult' = MFailure(MsgUpdateFailed)
                        /\ milestones' = milestones
                   ELSE /\ milestones' = (milestones \ hit)
                                           \cup {UpdatedRow(m, v.data) : m \in hit}
                        /\ mResult' = MSuccess(UpdatedRow(CHOOSE m \in hit : TRUE, v.data))
    /\ UNCHANGED <<admins, mPending, page, gateVars, otpVars, flowVars>>

\* deleteMilestone: the admin check, the validation of the id, the delete
DeleteMilestone(id, outcome, store) ==
    /\ mPending = NoPending
    /\ mOp' = [op |-> "deleteMilestone", arg |-> id]
    /\ LET u == UserOf(outcome, session)
       IN  IF ~isAdmin(u, admins)
           THEN /\ mResult' = MFailure(MsgUnauthorized)
                /\ mCalls' = <<>>
                /\ milestones' = milestones
           ELSE IF ~IsUuid(id)
           THEN /\ mResult' = MFailure(MsgInvalidId)
                /\ mCalls' = <<>>
                /\ milestones' = milestones
           ELSE /\ mCalls' = <<[fn |-> "delete", id |-> id]>>
                /\ IF store = "error"
                   THEN /\ mResult' = MFailure(MsgDeleteFailed)
                        /\ milestones' = milestones
                   ELSE /\ mResult' = MSuccess(NoData)
                        /\ milestones' = {m \in milestones : m.id # id}
    /\ UNCHANGED <<admins, mPending, page, gateVars, otpVars, flowVars>>

\* faulty variant: the error of the provider's answer is not looked at
getUserIgnoresError(outcome, sess) == sess

\* getUser of the actions module: null on an error or without a user
getUser(outcome, sess) ==
    IF outcome = "error" \/ sess = NoUser THEN NoUser ELSE sess

\* the account page: getUser, then the redirect or the card
AccountPage(outcome) ==
    /\ page' = [name |-> "account",
                checks |-> <<"getUser">>,
                answer |-> IF getUser(outcome, session) = NoUser
                           THEN Redirect(P_login)
                           ELSE Render]
    /\ UNCHANGED <<admins, milestones, mResult, mCalls, mOp, mPending,
                   gateVars, otpVars, flowVars>>

\* the form page: getUser and its redirect, then isAdmin (which asks the
\* provider for the user again) and its redirect, then the form
FormPage(outcome, adminOutcome) ==
    /\ page' = IF getUser(outcome, session) = NoUser
               THEN [name |-> "form",
                     checks |-> <<"getUser">>,
                     answer |-> Redirect(P_login)]
               ELSE [name |-> "form",
                     checks |-> <<"getUser", "isAdmin">>,
                     answer |-> IF ~isAdmin(UserOf(adminOutcome, session), admins)
                                THEN Redirect(UnauthorizedUrl)
                                ELSE Render]
    /\ UNCHANGED <<admins, milestones, mResult, mCalls, mOp, mPending,
                   gateVars, otpVars, flowVars>>

\* faulty variant: the provider's sign-out leaves the session as it is
SignOutSessionKept(outcome, sess) == sess

\* supabase.auth.signOut(): the session is ended, unless the call fails
SignOutSession(outcome, sess) == IF outcome = NoError THEN NoUser ELSE sess

\* signOut: the provider's sign-out is awaited, its result is not read, and
\* redirect("/login") follows
SignOut(outcome) ==
    /\ otpCalls' = <<[fn |-> "signOut"]>>
    /\ session' = SignOutSession(outcome, session)
    /\ lastOp' = [op |-> "signOut", arg |-> <<session>>]
    /\ otpResult' = NoResult
    /\ providerError' = outcome
    /\ page' = [name |-> "signOut", checks |-> <<>>, answer |-> Redirect(P_login)]
    /\ UNCHANGED <<clock, otpCookie, issued, gateRest, flowVars,
                   admins, milestones, mResult, mCalls, mOp, mPending>>

\* the callback route: the request's origin, the x-forwarded-host header and
\* NODE_ENV
Origin == <<"https://app.example">>
NoHost == <<>>
ForwardedHosts == {NoHost, <<"edge.example">>}
K_code == <<"c", "o", "d", "e">>
K_next == <<"n", "e", "x", "t">>

\* searchParams.get("next") ?? "/": only an absent parameter gives "/"
CallbackNext(url) ==
    LET v == ParamGet(url.query, K_next)
    IN  IF v = NoParam THEN P_root ELSE v

\* `if (code)`: an absent or empty code is skipped
CallbackHasCode(url) ==
    LET v == ParamGet(url.query, K_code)
    IN  v # NoParam /\ v # EmptyString

\* the base of the success redirect: the origin in development or without a
\* forwarded host, else https:// and the forwarded host
CallbackBase(dev, fwd) ==
    IF dev \/ fwd = NoHost THEN Origin ELSE <<"https://">> \o fwd

\* faulty variant: the error of the exchange is not read
CallbackAnswerIgnoresError(url, outcome, dev, fwd) ==
    IF CallbackHasCode(url)
    THEN Redirect(CallbackBase(dev, fwd) \o CallbackNext(url))
    ELSE Redirect(Origin \o P_login)

\* what GET returns: the redirect to next after a successful exchange, the
\* redirect to /login otherwise
CallbackAnswer(url, outcome, dev, fwd) ==
    IF CallbackHasCode(url) /\ outcome = NoError
    THEN Redirect(CallbackBase(dev, fwd) \o CallbackNext(url))
    ELSE Redirect(Origin \o P_login)

\* GET of the callback route, url being new URL(request.url); a successful
\* exchange signs the user in
OAuthCallback(url, outcome, dev, fwd) ==
    /\ page' = [name |-> "callback",
                checks |-> IF CallbackHasCode(url)
                           THEN <<"exchangeCodeForSession">>
                           ELSE <<>>,
                answer |-> CallbackAnswer(url, outcome, dev, fwd)]
    /\ session' = IF CallbackHasCode(url) /\ outcome = NoError
                  THEN "u1"
                  ELSE session
    /\ UNCHANGED <<gateRest, otpVars, flowVars,
                   admins, milestones, mResult, mCalls, mOp, mPending>>

MilestoneNext ==
    \/ \E u \in {NoUser} \cup MilestoneUsers : SessionChange(u)
    \/ \E i \in CreateInputs, o \in GetUserOutcomes : CreateMilestoneCheck(i, o)
    \/ \E o \in GetUserOutcomes, st \in StoreOutcomes : CreateMilestoneInsert(o, st)
    \/ \E i \in UpdateInputs, o \in GetUserOutcomes, st \in StoreOutcomes :
          UpdateMilestone(i, o, st)
    \/ \E i \in InputIds, o \in GetUserOutcomes, st \in StoreOutcomes :
          DeleteMilestone(i, o, st)
    \/ \E o \in GetUserOutcomes : AccountPage(o)
    \/ \E o \in GetUserOutcomes, ao \in GetUserOutcomes : FormPage(o, ao)

-----------------------------------------------------------------------------
(* Specifications *)

\* the gate, serving one request after another
Init == GateInit /\ OtpInit /\ FlowInit /\ AdminInit

Next ==
    \/ \E g \in Gates, raw \in RawUrls, c \in InitialCookies : GateReceive(g, raw, c)
    \/ \E names \in BatchNames : ProviderSetAll(names)
    \/ \E o \in GetUserOutcomes : GetUserResolve(o)
    \/ GateFinish

Spec == Init /\ [][Next]_vars

\* the OTP flow of one client, the provider configured and nobody signed in
OtpSpecInit ==
    GateInit /\ configured /\ session = NoUser /\ OtpInit /\ FlowInit /\ AdminInit

OtpSpec == OtpSpecInit /\ [][OtpNext]_vars

\* the OTP flow, with clearOTPSession also called on its own
ClearSpec == OtpSpecInit /\ [][ClearNext]_vars

\* the two server actions against every answer of the provider
SendMessages == {NoError, M_signups, M_rate, M_fetch, M_signupRate, M_rateCap, M_userNotFound}
VerifyMessages == {NoError, M_expiredInvalid, M_invalid, M_fetch, M_invalidExpired, M_expiredCap}

MappingNext ==
    \/ \E e \in {E_u, E_plus, E_noAt}, o \in SendMessages : SignInWithOTP(e, o)
    \/ \E t \in {T_good, T_five}, o \in VerifyMessages : VerifyOTP(t, o)

MappingSpec == OtpSpecInit /\ [][MappingNext]_vars

\* one navigation at a time under an authentication state that stays: the
\* browser opens any URL and follows what proxy answers
RedirectSpecInit == GateInit /\ configured /\ OtpInit /\ FlowInit /\ AdminInit

\* every path, without a query or with a redirect parameter that names one
\* of the routes of proxy
RouteSet ==
    {ProtectedRoutes("proxy")[i] : i \in 1..Len(ProtectedRoutes("proxy"))}
        \cup {AuthRoutes[i] : i \in 1..Len(AuthRoutes)}

RedirectUrls ==
    {SerializeUrl([pathname |-> p, query |-> q]) :
        p \in Paths, q \in {<<>>} \cup {<<<<K_redirect, r>>>> : r \in RouteSet}}

RedirectNext ==
    \/ \E raw \in RedirectUrls : BrowserVisit(raw)
    \/ \E o \in {"ok"} : BrowserGate(o)

RedirectSpec == RedirectSpecInit /\ [][RedirectNext]_vars

\* requests to proxy while the client signs out and signs in again
SignOutUrls ==
    {SerializeUrl([pathname |-> p, query |-> <<>>]) :
        p \in {P_root, P_account, P_dashboard_x, P_login, P_x}}

P_callback == <<"/", "a", "u", "t", "h", "/", "c", "a", "l", "l", "b", "a", "c", "k">>
V_code == <<"c", "1">>

CallbackUrls ==
    {SerializeUrl([pathname |-> P_callback, query |-> q]) :
        q \in {<<>>,
               <<<<K_code, V_code>>>>,
               <<<<K_code, EmptyString>>>>,
               <<<<K_next, P_dashboard>>>>,
               <<<<K_code, V_code>>, <<K_next, P_dashboard>>>>,
               <<<<K_next, P_account>>, <<K_code, V_code>>>>,
               <<<<K_code, V_code>>, <<K_next, EmptyString>>>>}}

\* the requests as the handler sees them after new URL(request.url)
CallbackRequests == {ParseUrl(raw) : raw \in CallbackUrls}

CallbackUrlCode ==
    ParseUrl(SerializeUrl([pathname |-> P_callback, query |-> <<<<K_code, V_code>>>>]))

ExchangeOutcomes == {NoError, M_invalid}

SignOutNext ==
    \/ \E raw \in SignOutUrls : GateReceive("proxy", raw, NoCookies)
    \/ \E o \in GetUserOutcomes : GetUserResolve(o)
    \/ GateFinish
    \/ \E o \in {NoError, M_fetch} : SignOut(o)
    \/ \E o \in {NoError, M_fetch} : SignInWithOTP(E_u, o)
    \/ \E t \in {T_good, T_five}, o \in {NoError, M_invalid} : VerifyOTP(t, o)
    \/ \E o \in ExchangeOutcomes : OAuthCallback(CallbackUrlCode, o, TRUE, NoHost)

SignOutSpec == RedirectSpecInit /\ [][SignOutNext]_vars

\* requests to the callback route, between sign-outs
CallbackRouteNext ==
    \/ \E url \in CallbackRequests, o \in ExchangeOutcomes, dev \in BOOLEAN,
          fwd \in ForwardedHosts : OAuthCallback(url, o, dev, fwd)
    \/ \E o \in {NoError, M_fetch} : SignOut(o)
    \/ \E raw \in SignOutUrls : GateReceive("proxy", raw, NoCookies)
    \/ \E o \in GetUserOutcomes : GetUserResolve(o)
    \/ GateFinish

CallbackSpec == RedirectSpecInit /\ [][CallbackRouteNext]_vars

\* one client in its browser: navigations, the login form, the OTP form
FlowSpec == OtpSpecInit /\ [][FlowNext]_vars

\* the milestone actions of one caller whose session may change at any time
MilestoneSpecInit ==
    GateInit /\ configured /\ session = NoUser /\ OtpInit /\ FlowInit /\ MilestoneInit

MilestoneSpec == MilestoneSpecInit /\ [][MilestoneNext]_vars

\* the OTP form and its resend timer; the interval fires as long as it runs
CooldownSpec == OtpSpecInit /\ [][CooldownNext]_vars /\ WF_vars(CooldownTick)

-----------------------------------------------------------------------------
(* Properties of the gate, checked under Spec *)

Protected(pathname) == isProtectedRoute(gate, pathname)

Location == ParseUrl(response.location)

ProxyDone == gpc = "done" /\ gate = "proxy" /\ configured

\* the cookies of this pass: the cookiesToSet lists applied in order
RECURSIVE ApplyBatches(_, _)
ApplyBatches(jar, batches) ==
    IF batches = <<>> THEN jar
    ELSE ApplyBatches(CookiesSetAll(jar, Head(batches)), Tail(batches))

PassCookies == ApplyBatches(NoCookies, passMutations)

\* C1: a request to a Protected path for which the refresh yields no user is
\* answered by proxy with a redirect to /login whose redirect parameter is the
\* requested pathname (/dashboard gives /login?redirect=%2Fdashboard); it is
\* never passed through.
C1_ProtectedWithoutUserGoesToLogin ==
    (ProxyDone /\ Protected(request.url.pathname) /\ user = NoUser) =>
        /\ response.kind = "redirect"
        /\ decision = "RedirectToLogin"
        /\ Location.pathname = P_login
        /\ ParamGet(Location.query, K_redirect) = request.url.pathname
        /\ (request.url = [pathname |-> P_dashboard, query |-> <<>>] =>
                response.location = <<"/", "l", "o", "g", "i", "n", "?", "r", "e", "d", "i", "r", "e", "c", "t", "=", "%", "2", "F", "d", "a", "s", "h", "b", "o", "a", "r", "d">>)

C1_Witness ==
    /\ ProxyDone
    /\ request.url = [pathname |-> P_dashboard, query |-> <<>>]
    /\ user = NoUser
    /\ response.kind = "redirect"
    /\ response.location = <<"/", "l", "o", "g", "i", "n", "?", "r", "e", "d", "i", "r", "e", "c", "t", "=", "%", "2", "F", "d", "a", "s", "h", "b", "o", "a", "r", "d">>

\* C2: a request to /login or /otp for which the refresh yields a user is
\* answered by proxy with a redirect to the value of the redirect parameter
\* when it is present and not empty, to / otherwise, and the redirect URL holds
\* no redirect parameter.
C2_AuthOnlyWithUserLeavesAuthPage ==
    (ProxyDone /\ request.url.pathname \in {P_login, P_otp} /\ user # NoUser) =>
        LET r == ParamGet(request.url.query, K_redirect)
        IN  /\ response.kind = "redirect"
            /\ decision = "RedirectFromAuth"
            /\ Location.pathname = (IF r # NoParam /\ r # EmptyString THEN r ELSE P_root)
            /\ ~ParamHas(Location.query, K_redirect)
            /\ ~Includes(response.location, K_redirect \o <<"=">>)

C2_Witness ==
    /\ ProxyDone
    /\ request.url = [pathname |-> P_login, query |-> <<<<K_redirect, P_account>>>>]
    /\ user # NoUser
    /\ response.kind = "redirect"
    /\ response.location = P_account

\* C3: with the provider configured, a gate (proxy or updateSession) that has
\* produced a disposition has called getUser() exactly once and that call has
\* resolved; while the call is pending there is no disposition.
C3_RefreshBeforeDisposition ==
    (configured /\ gpc # "idle") =>
        /\ getUserCalls = 1
        /\ (response.kind # "none" \/ decision # "none") => getUserResolved
        /\ gpc = "refreshing" => (response = NoResponse /\ decision = "none")
        /\ gpc = "done" => decision \in {"Allow", "RedirectToLogin", "RedirectFromAuth"}

C3_Witness ==
    /\ configured
    /\ gpc = "done"
    /\ gate = "updateSession"
    /\ request.url.pathname = P_x
    /\ request.cookies = NoCookies
    /\ decision = "Allow"
    /\ getUserCalls = 1
    /\ getUserResolved

\* C4: when getUser() resolves with an error the gate returns a response and
\* treats the request as one without user: a Protected path is redirected to
\* /login and never passed through.
C4_FailClosed ==
    (configured /\ gpc = "done" /\ authError) =>
        /\ user = NoUser
        /\ response.kind \in {"next", "redirect"}
        /\ Protected(request.url.pathname) =>
              /\ response.kind = "redirect"
              /\ decision = "RedirectToLogin"
              /\ Location.pathname = P_login

C4_Witness ==
    /\ ProxyDone
    /\ authError
    /\ session # NoUser
    /\ request.url.pathname = P_settings
    /\ decision = "RedirectToLogin"
    /\ Location.pathname = P_login

\* C5: when the provider is not configured proxy passes every request
\* through unmodified: no provider call, no cookie written, no redirect,
\* whatever the path and the user.
C5_UnconfiguredPassesThrough ==
    (~configured /\ gate = "proxy" /\ gpc # "idle") =>
        /\ gpc = "done"
        /\ response = NextResponseNext(request)
        /\ response.kind = "next"
        /\ response.cookies = NoCookies
        /\ getUserCalls = 0
        /\ passMutations = <<>>
        /\ ~getUserResolved

C5_Witness ==
    /\ ~configured
    /\ gate = "proxy"
    /\ gpc = "done"
    /\ session = NoUser
    /\ request.url.pathname = P_dashboard
    /\ response.kind = "next"
    /\ getUserCalls = 0

\* C6: when neither redirect condition holds proxy returns Allow and the
\* forwarded response carries every cookie mutation of the refresh of that
\* request; the result is always one of Allow, RedirectToLogin,
\* RedirectFromAuth.
C6_AllowCarriesEveryMutation ==
    ProxyDone =>
        /\ decision \in {"Allow", "RedirectToLogin", "RedirectFromAuth"}
        /\ (/\ ~(Protected(request.url.pathname) /\ user = NoUser)
            /\ ~(isAuthRoute(request.url.pathname) /\ user # NoUser)) =>
               /\ decision = "Allow"
               /\ response.kind = "next"
               /\ response.cookies = PassCookies

\* C7: a pass's mutations are applied all or nothing: the returned response
\* and the request view each hold none or all of them, and none when
\* getUser() failed.
C7_AllOrNothing ==
    (configured /\ gpc = "done") =>
        LET onRequest == {n \in DOMAIN PassCookies :
                             n \in DOMAIN request.cookies
                             /\ request.cookies[n] = PassCookies[n]}
        IN  /\ response.cookies \in {NoCookies, PassCookies}
            /\ onRequest \in {{}, DOMAIN PassCookies}
            /\ authError => (response.cookies = NoCookies /\ onRequest = {})

-----------------------------------------------------------------------------
(* Properties of the OTP flow, checked under OtpSpec *)

PendingEmail == getOTPSessionEmail(otpCookie, clock)

SixDigits(t) == Len(t) = 6 /\ \A i \in 1..Len(t) : t[i] \in DigitChars

\* a step of verifyOTP(t) or of signInWithOTP(e) with the provider answering o;
\* lastOp' names the call and its argument and is looked at first
VerifyStep(t, o) ==
    /\ lastOp' = [op |-> "verifyOTP", arg |-> t]
    /\ VerifyOTP(t, o)

SendStep(e, o) ==
    /\ lastOp' = [op |-> "signInWithOTP", arg |-> e]
    /\ SignInWithOTP(e, o)

\* C8: verifyOTP with no challenge pending (never sent, cleared or expired)
\* returns the session-expired failure for every token, calls the provider
\* not at all and changes no cookie.
C8_VerifyWithoutChallenge ==
    [][\A t \in Tokens, o \in VerifyOutcomes :
          (VerifyStep(t, o) /\ PendingEmail = NoEmail) =>
              /\ otpResult' = Failure(MsgSessionExpired)
              /\ otpCalls' = <<>>
              /\ otpCookie' = otpCookie
              /\ session' = session]_vars

C8_Witness ==
    /\ otpCookie # NoCookie
    /\ clock >= otpCookie.expires
    /\ lastOp = [op |-> "verifyOTP", arg |-> T_good]
    /\ otpResult = Failure(MsgSessionExpired)
    /\ otpCalls = <<>>

\* C9: with a challenge pending, verifyOTP with a token that is not exactly
\* six digits returns a validation failure, calls the provider not at all and
\* leaves the challenge as it was.
C9_VerifyRejectsMalformedToken ==
    [][\A t \in Tokens, o \in VerifyOutcomes :
          (VerifyStep(t, o) /\ PendingEmail # NoEmail /\ ~SixDigits(t)) =>
              /\ otpResult' \in {Failure(MsgOtpLength), Failure(MsgOtpNumbers)}
              /\ otpCalls' = <<>>
              /\ otpCookie' = otpCookie
              /\ session' = session]_vars

C9_Witness ==
    /\ PendingEmail = E_u
    /\ lastOp = [op |-> "verifyOTP", arg |-> T_alpha]
    /\ otpResult = Failure(MsgOtpNumbers)
    /\ otpCalls = <<>>

\* C10: a verifyOTP that does not return success leaves the challenge cookie
\* as it was, so the same email is pending afterwards; a verifyOTP that reaches
\* the provider passes it the pending email; the cookie is removed only by a
\* verifyOTP that returns success.
C10_FailedVerifyKeepsChallenge ==
    [][/\ \A t \in Tokens, o \in VerifyOutcomes :
             VerifyStep(t, o) =>
                 /\ (o # NoError => ~otpResult'.success)
                 /\ (~otpResult'.success =>
                        /\ otpCookie' = otpCookie
                        /\ getOTPSessionEmail(otpCookie', clock') = PendingEmail)
                 /\ (otpCalls' # <<>> => otpCalls'[1].email = PendingEmail)
       /\ (otpCookie # NoCookie /\ otpCookie' = NoCookie) =>
             /\ lastOp'.op = "verifyOTP"
             /\ otpResult'.success]_vars

C10_Witness ==
    /\ PendingEmail = E_u
    /\ lastOp = [op |-> "verifyOTP", arg |-> T_zero]
    /\ otpResult = Failure(MsgCodeInvalid)
    /\ otpCalls # <<>>

\* C11: a verification the provider accepts returns success and deletes the
\* challenge, so that no email is read back right after it; and while no
\* challenge has been written again, which only a successful send does, every
\* verify answers that the session expired
C11_SuccessfulVerifyClears ==
    [][/\ \A t \in Tokens, o \in VerifyOutcomes :
             (VerifyStep(t, o) /\ PendingEmail # NoEmail /\ SixDigits(t) /\ o = NoError)
             => /\ otpResult'.success
                /\ otpCookie' = NoCookie
                /\ getOTPSessionEmail(otpCookie', clock') = NoEmail
       /\ \A t \in Tokens, o \in VerifyOutcomes :
             (VerifyStep(t, o) /\ otpCookie = NoCookie)
             => /\ otpResult' = Failure(MsgSessionExpired)
                /\ otpCalls' = <<>>
                /\ otpCookie' = NoCookie
       /\ (otpCookie = NoCookie /\ otpCookie' # NoCookie)
             => /\ lastOp'.op = "signInWithOTP"
                /\ otpResult'.success
      ]_vars

\* a verify after a successful one, no challenge written in between
C11_Witness ==
    /\ lastOp.op = "verifyOTP"
    /\ otpResult = Failure(MsgSessionExpired)
    /\ session = "u1"
    /\ issued # NoIssue
    /\ otpCookie = NoCookie

\* C12: right after a successful send of an email the same email is read
\* back, character for character, and a verify that follows with no time
\* passed hands exactly that email to the provider
C12_SendReadRoundTrip ==
    [][/\ \A e \in Emails, o \in SendOutcomes :
             (SendStep(e, o) /\ otpResult'.success)
             => getOTPSessionEmail(otpCookie', clock') = e
       /\ \A t \in Tokens, o \in VerifyOutcomes :
             (/\ VerifyStep(t, o)
              /\ lastOp.op = "signInWithOTP"
              /\ otpResult.success
              /\ clock = issued.at
              /\ SixDigits(t))
             => /\ Len(otpCalls') = 1
                /\ otpCalls'[1].fn = "verifyOtp"
                /\ otpCalls'[1].email = lastOp.arg
      ]_vars

\* the email with an upper-case letter and a "+" has reached the provider's
\* verifyOtp at the time it was sent
C12_Witness ==
    /\ lastOp.op = "verifyOTP"
    /\ issued.email = E_plus
    /\ issued.at = clock
    /\ Len(otpCalls) = 1
    /\ otpCalls[1].fn = "verifyOtp"
    /\ otpCalls[1].email = E_plus

MalformedEmails == {E_noTld, E_noAt, E_dot, EmptyString}

\* C14: signInWithOTP with a malformed email fails with the validation
\* message, calls the provider not at all and leaves the cookie, and with it
\* the email of a pending challenge, as it was
C14_MalformedEmailRejected ==
    [][\A e \in MalformedEmails, o \in SendOutcomes :
          SendStep(e, o)
          => /\ otpResult' = Failure(MsgInvalidEmail)
             /\ otpCalls' = <<>>
             /\ otpCookie' = otpCookie
             /\ getOTPSessionEmail(otpCookie', clock') = getOTPSessionEmail(otpCookie, clock)
      ]_vars

\* a malformed email was submitted while a challenge was pending
C14_Witness ==
    /\ lastOp = [op |-> "signInWithOTP", arg |-> E_noTld]
    /\ otpResult = Failure(MsgInvalidEmail)
    /\ otpCalls = <<>>
    /\ PendingEmail = E_u

\* C15: when the provider answers signInWithOtp with an error, signInWithOTP
\* fails and the cookie is what it was before the call; the cookie changes
\* only in a call the provider accepted
C15_CookieOnlyAfterProviderSuccess ==
    [][\A e \in Emails, o \in SendOutcomes :
          SendStep(e, o)
          => /\ (o # NoError
                  => /\ ~otpResult'.success
                     /\ otpCookie' = otpCookie
                     /\ getOTPSessionEmail(otpCookie', clock')
                          = getOTPSessionEmail(otpCookie, clock))
             /\ (otpCookie' # otpCookie
                  => /\ o = NoError
                     /\ otpResult'.success
                     /\ Len(otpCalls') = 1
                     /\ otpCalls'[1].fn = "signInWithOtp")
      ]_vars

\* the provider refused a send for another email while a challenge was pending
C15_Witness ==
    /\ lastOp = [op |-> "signInWithOTP", arg |-> E_plus]
    /\ otpResult = Failure(MsgRateLimit)
    /\ Len(otpCalls) = 1
    /\ PendingEmail = E_u

\* C16: the one cookie holds at most one challenge, and a pending challenge
\* holds the email of the latest send the provider accepted, whatever was
\* pending before that send
C16_PendingIsLatestSend ==
    PendingEmail # NoEmail
    => /\ issued # NoIssue
       /\ PendingEmail = issued.email

\* a send for another email has overwritten a pending challenge
C16_Witness ==
    /\ issued.replaced = E_u
    /\ issued.email = E_plus
    /\ PendingEmail = E_plus

\* C17: 600 seconds after the latest accepted send no email is read back and
\* verifyOTP answers that the session expired; before that, unless a
\* verification deleted it, the challenge of that send is pending, so every
\* accepted send, a resend too, starts the 600 seconds anew
C17_ExpiresAfterMaxAge ==
    [][/\ (issued' # NoIssue /\ clock' >= issued'.at + 600)
             => getOTPSessionEmail(otpCookie', clock') = NoEmail
       /\ (issued' # NoIssue /\ otpCookie' # NoCookie /\ clock' < issued'.at + 600)
             => getOTPSessionEmail(otpCookie', clock') = issued'.email
       /\ \A t \in Tokens, o \in VerifyOutcomes :
             (VerifyStep(t, o) /\ issued # NoIssue /\ clock >= issued.at + 600)
             => /\ otpResult' = Failure(MsgSessionExpired)
                /\ otpCalls' = <<>>
       /\ \A e \in Emails, o \in SendOutcomes :
             (SendStep(e, o) /\ otpResult'.success)
             => getOTPSessionEmail(otpCookie', clock') = e
      ]_vars

\* a resend restarted the window, and a verify came 600 seconds or more
\* after it
C17_Witness ==
    /\ lastOp.op = "verifyOTP"
    /\ otpResult = Failure(MsgSessionExpired)
    /\ otpCookie # NoCookie
    /\ issued.replaced = issued.email
    /\ issued.at > 0
    /\ clock >= issued.at + 600

-----------------------------------------------------------------------------
(* Properties of the route classification *)

\* the protected entries other than the root, and what the route lists are
\* meant to classify as protected: the root itself and every path that starts
\* with one of the other entries
ProtectedPrefixes == {P_account, P_dashboard, P_profile, P_settings}

ExpectedProtected(pathname) ==
    \/ pathname = P_root
    \/ \E r \in ProtectedPrefixes : StartsWith(pathname, r)

ExpectedAuthOnly(pathname) == pathname \in {P_login, P_otp}

\* C18: proxy treats a path as protected exactly when it is / or starts with
\* /account, /dashboard, /profile or /settings: without a user /dashboard/x
\* and /accountability are redirected to the login and /x is passed through
C18_ProtectedClassification ==
    ProxyDone =>
        LET p == request.url.pathname
        IN  /\ isProtectedRoute(gate, p) <=> ExpectedProtected(p)
            /\ user = NoUser => (decision = "RedirectToLogin" <=> ExpectedProtected(p))
            /\ user # NoUser => decision # "RedirectToLogin"
            /\ (user = NoUser /\ p \in {P_dashboard_x, P_accountability})
                  => response.kind = "redirect" /\ Location.pathname = P_login
            /\ (user = NoUser /\ p = P_x) => response.kind = "next"

C18_Witness ==
    /\ ProxyDone
    /\ request.url.pathname = P_accountability
    /\ user = NoUser
    /\ decision = "RedirectToLogin"
    /\ response.kind = "redirect"

\* C19: proxy treats a path as an auth route exactly when it is /login or
\* /otp; with a user present only these two are redirected away, and /login/x
\* and /otpx are passed through
C19_AuthOnlyClassification ==
    ProxyDone =>
        LET p == request.url.pathname
        IN  /\ isAuthRoute(p) <=> ExpectedAuthOnly(p)
            /\ user # NoUser => (decision = "RedirectFromAuth" <=> ExpectedAuthOnly(p))
            /\ user = NoUser => decision # "RedirectFromAuth"
            /\ (user # NoUser /\ p \in {P_login_x, P_otpx})
                  => decision = "Allow" /\ response.kind = "next"

C19_Witness ==
    /\ ProxyDone
    /\ request.url.pathname = P_login_x
    /\ user # NoUser
    /\ decision = "Allow"
    /\ response.kind = "next"

\* C20: no path is both protected and an auth route; the protected entries
\* themselves are protected and no auth routes; and a request gets one
\* decision: the redirect to the login goes to protected paths only, the
\* redirect away from the auth pages to auth routes only
C20_ProtectedAndAuthOnlyDisjoint ==
    ProxyDone =>
        LET p == request.url.pathname
        IN  /\ ~(isProtectedRoute(gate, p) /\ isAuthRoute(p))
            /\ ~(ExpectedProtected(p) /\ ExpectedAuthOnly(p))
            /\ p \in ProtectedPrefixes \cup {P_root}
                  => /\ isProtectedRoute(gate, p)
                     /\ ~isAuthRoute(p)
                     /\ decision = (IF user = NoUser THEN "RedirectToLogin" ELSE "Allow")
            /\ decision = "RedirectToLogin" => ~ExpectedAuthOnly(p)
            /\ decision = "RedirectFromAuth" => ~ExpectedProtected(p)
            /\ (ExpectedAuthOnly(p) /\ user = NoUser) => decision = "Allow"

\* /login without a user: an auth route that is not sent to the login
C20_Witness ==
    /\ ProxyDone
    /\ request.url.pathname = P_login
    /\ user = NoUser
    /\ decision = "Allow"
    /\ response.kind = "next"

-----------------------------------------------------------------------------
(* Properties of the browser flow *)

\* the gate sent the client to the login from origin, and the client has
\* since verified a code and come to rest on a page as a signed-in user
DetourCompleted ==
    /\ browser.status = "loaded"
    /\ browser.user # NoUser
    /\ origin # <<>>
    /\ lastOp.op = "verifyOTP"
    /\ otpResult.success

\* C21: a client sent to the login from a protected path, who then signs in
\* with the login form and the OTP form, comes to rest on that path
C21_DetourReturnsToOrigin ==
    DetourCompleted => browser.url.pathname = origin

\* C22: every signInWithOtp call that reaches the provider, from the login
\* form and from the resend button alike, has shouldCreateUser false
C22_NoAccountCreation ==
    \A i \in 1..Len(otpCalls) :
        otpCalls[i].fn = "signInWithOtp" => otpCalls[i].shouldCreateUser = FALSE

\* a resend has reached the provider
C22_Witness ==
    /\ browser.status = "loaded"
    /\ browser.url.pathname = P_otp
    /\ lastOp.op = "signInWithOTP"
    /\ resendCooldown = RESEND_COOLDOWN
    /\ Len(otpCalls) = 1
    /\ otpCalls[1].fn = "signInWithOtp"
    /\ otpCalls[1].shouldCreateUser = FALSE

\* C23: whatever signInWithOTP or verifyOTP was called with and whatever the
\* provider answered, the action has returned a result; a result with
\* success false has an error that is not empty, a result with success true
\* has none
C23_ResultShape ==
    lastOp.op \in {"signInWithOTP", "verifyOTP"}
    => /\ otpResult.success \in BOOLEAN
       /\ ~otpResult.success
            => /\ otpResult.error # <<>>
               /\ \A i \in 1..Len(otpResult.error) : otpResult.error[i] # ""
       /\ otpResult.success => otpResult.error = <<>>

\* a provider error that none of the mappings of verifyOTP recognises
C23_Witness ==
    /\ lastOp.op = "verifyOTP"
    /\ Len(otpCalls) = 1
    /\ otpResult = Failure(M_fetch)

-----------------------------------------------------------------------------
(* Properties of the milestone actions *)

\* the caller has no session, or has one and no row in admins
CallerNotAdmin == session = NoUser \/ session \notin admins

\* the action has returned the Unauthorized failure and sent nothing to the
\* milestones table
Refused ==
    /\ mResult' = MFailure(MsgUnauthorized)
    /\ mCalls' = <<>>
    /\ milestones' = milestones
    /\ mPending' = NoPending

\* C24: createMilestone, updateMilestone and deleteMilestone called by a
\* caller who is no admin return the Unauthorized failure, whatever the
\* input is, valid or not, and nothing is inserted, updated or deleted; an
\* insert is sent only for a call that passed the admin check
C24_MutationsAdminOnly ==
    [][/\ \A i \in CreateInputs, o \in GetUserOutcomes :
             (/\ mOp'.op = "createMilestone"
              /\ CreateMilestoneCheck(i, o)
              /\ CallerNotAdmin) => Refused
       /\ \A i \in UpdateInputs, o \in GetUserOutcomes, st \in StoreOutcomes :
             (/\ mOp'.op = "updateMilestone"
              /\ mOp'.arg = i
              /\ UpdateMilestone(i, o, st)
              /\ CallerNotAdmin) => Refused
       /\ \A i \in InputIds, o \in GetUserOutcomes, st \in StoreOutcomes :
             (/\ mOp'.op = "deleteMilestone"
              /\ mOp'.arg = i
              /\ DeleteMilestone(i, o, st)
              /\ CallerNotAdmin) => Refused
       /\ milestones' # milestones
             => /\ mCalls' # <<>>
                /\ \/ session \in admins
                   \/ mPending.checked \in admins
      ]_vars

\* a signed-in user without an admins row has asked to delete with an id that
\* is no UUID, while the table holds a row
C24_Witness ==
    /\ mOp = [op |-> "deleteMilestone", arg |-> Id_short]
    /\ mResult = MFailure(MsgUnauthorized)
    /\ mCalls = <<>>
    /\ session = "u2"
    /\ milestones # {}

-----------------------------------------------------------------------------
(* Properties of the cookies the gate returns *)

GateAnswered ==
    /\ configured
    /\ gpc = "done"
    /\ decision \in {"Allow", "RedirectToLogin", "RedirectFromAuth"}

\* C25: whatever the gate answers, pass-through or either redirect, the
\* response carries the session cookies the refresh of that request has
\* produced; stated for a refresh that handed them over in one setAll call
C25_EveryAnswerCarriesRefresh ==
    (GateAnswered /\ Len(passMutations) = 1) => response.cookies = PassCookies

\* C26: every cookie the refresh has written to the request view, in however
\* many setAll calls, is set with the same value on the response the gate
\* returns when it lets the request pass
C26_RequestAndResponseAgree ==
    (GateAnswered /\ decision = "Allow") =>
        \A n \in DOMAIN PassCookies :
            /\ n \in DOMAIN request.cookies
            /\ request.cookies[n] = PassCookies[n]
            /\ n \in DOMAIN response.cookies
            /\ response.cookies[n] = request.cookies[n]

-----------------------------------------------------------------------------
\* The provider's answer to the last send was an error.
SendAnsweredWithError ==
    /\ lastOp.op = "signInWithOTP"
    /\ providerError # NoError

RateLimitText == <<"r", "a", "t", "e", " ", "l", "i", "m", "i", "t">>

\* The message matches one of the signup-disabled patterns, in any case.
SignupMarked(msg) ==
    \/ Includes(ToLowerCase(msg), <<"s", "i", "g", "n", "u", "p">>)
    \/ Includes(ToLowerCase(msg), <<"u", "s", "e", "r", " ", "n", "o", "t", " ", "f", "o", "u", "n", "d">>)
    \/ /\ Includes(ToLowerCase(msg), <<"o", "t", "p">>)
       /\ Includes(ToLowerCase(msg), <<"d", "i", "s", "a", "b", "l", "e", "d">>)

\* C27: send answers every provider error with a failure whose error is the
\* signup-disabled text, the rate-limited text or the provider's own message;
\* a provider message that contains "rate limit" gives the rate-limited text,
\* and a message that matches no pattern comes back unchanged.
C27_SendErrorClasses ==
    SendAnsweredWithError
        => /\ otpResult.success = FALSE
           /\ otpResult.error \in {MsgSignupDisabled, MsgRateLimit, providerError}
           /\ (Includes(providerError, RateLimitText)
                  => otpResult.error = MsgRateLimit)
           /\ (~SignupMarked(providerError) /\ ~Includes(providerError, RateLimitText)
                  => otpResult.error = providerError)

\* The provider's answer to the last verify was an error.
VerifyAnsweredWithError ==
    /\ lastOp.op = "verifyOTP"
    /\ providerError # NoError

\* C28: verify answers every provider error with a failure whose error is
\* the expired-code text when the provider's message contains "expired",
\* otherwise the invalid-code text when it contains "invalid", otherwise the
\* provider's message itself; with both substrings the expired text wins.
C28_VerifyErrorClasses ==
    VerifyAnsweredWithError
        => /\ otpResult.success = FALSE
           /\ otpResult.error =
                  IF Includes(providerError, <<"e", "x", "p", "i", "r", "e", "d">>)
                  THEN MsgCodeExpired
                  ELSE IF Includes(providerError, <<"i", "n", "v", "a", "l", "i", "d">>)
                  THEN MsgCodeInvalid
                  ELSE providerError

\* the provider said "invalid or expired" and the caller was told the code
\* has expired
C28_Witness ==
    /\ VerifyAnsweredWithError
    /\ providerError = M_invalidExpired
    /\ otpResult.error = MsgCodeExpired

\* The interval fires: the form and the server state stay, the counter moves.
TimerStep ==
    /\ cooldownTimer
    /\ resendCooldown' # resendCooldown
    /\ browser' = browser
    /\ lastOp' = lastOp
    /\ otpResult' = otpResult

\* The OTP form stays mounted at /otp and the send action runs with the
\* form's email: a resend request that reached the server.
ResendStep ==
    /\ lastOp'.op = "signInWithOTP"
    /\ browser.status = "loaded"
    /\ browser.url.pathname = P_otp
    /\ browser' = browser
    /\ ~TimerStep
    /\ \E o \in SendOutcomes : SignInWithOTPServer(formEmail, o)

CooldownSteps ==
    /\ ResendStep
           => /\ formEmail # <<>>
              /\ resendCooldown = 0
              /\ resendCooldown' = IF otpResult'.success THEN 60 ELSE 0
    /\ TimerStep => resendCooldown' = resendCooldown - 1
    /\ resendCooldown = 0 /\ resendCooldown' # 0
           => /\ ResendStep
              /\ otpResult'.success

\* The last send was given a well-formed email and went to the provider,
\* however shortly after the send before it.
ServerSendsAtOnce ==
    lastOp.op = "signInWithOTP" /\ emailSchema(lastOp.arg).success
        => /\ Len(otpCalls) = 1
           /\ otpCalls[1].fn = "signInWithOtp"

\* C29: a resend reaches the server only from a form with an email and a
\* counter at 0; a successful resend sets the counter to 60 and a failed one
\* leaves it at 0; each firing of the timer takes 1 off; the counter stays
\* within 0..60, comes to 0 and leaves 0 only by the next successful resend;
\* the server action sends whenever it is called with a well-formed email.
C29_ResendCooldown ==
    /\ [][CooldownSteps]_vars
    /\ [](resendCooldown \in 0..60 /\ ServerSendsAtOnce)
    /\ (resendCooldown > 0 ~> resendCooldown = 0)

\* 59 seconds after a successful resend: the counter is at 1, the timer runs
C29_Witness ==
    /\ browser.status = "loaded"
    /\ browser.url.pathname = P_otp
    /\ lastOp.op = "signInWithOTP"
    /\ otpResult.success
    /\ resendCooldown = 1
    /\ cooldownTimer

\* The step runs the account page / the form page.
AccountPageStep(o) ==
    /\ page'.name = "account"
    /\ AccountPage(o)

FormPageStep(o, ao) ==
    /\ page'.name = "form"
    /\ FormPage(o, ao)

\* getUser gives null for this request: nobody is signed in, or the provider
\* answers with an error.
GetUserNull(o) == session = NoUser \/ o = "error"

\* C30: for a request whose getUser gives null the account page and the form
\* page answer with the redirect to /login and do not render; for a signed-in
\* user without an admins row the form page answers with the redirect to
\* /?error=unauthorized; the form page asks getUser first and isAdmin only
\* after it, and renders only for a signed-in admin.
C30_PageGuards ==
    [][/\ \A o \in GetUserOutcomes :
             AccountPageStep(o)
                 => /\ (GetUserNull(o) => page'.answer = Redirect(P_login))
                    /\ (page'.answer = Render => ~GetUserNull(o))
       /\ \A o \in GetUserOutcomes, ao \in GetUserOutcomes :
             FormPageStep(o, ao)
                 => /\ page'.checks[1] = "getUser"
                    /\ (GetUserNull(o)
                           => /\ page'.answer = Redirect(P_login)
                              /\ page'.checks = <<"getUser">>)
                    /\ (~GetUserNull(o) /\ session \notin admins
                           => /\ page'.answer = Redirect(UnauthorizedUrl)
                              /\ page'.checks = <<"getUser", "isAdmin">>)
                    /\ (page'.answer = Render
                           => ~GetUserNull(o) /\ session \in admins)
      ]_vars

\* u2 is signed in and has no admins row while u1 has: the form page has
\* sent u2 back to the home page
C30_Witness ==
    /\ session = "u2"
    /\ admins = {"u1"}
    /\ page.name = "form"
    /\ page.checks = <<"getUser", "isAdmin">>
    /\ page.answer = Redirect(UnauthorizedUrl)

\* What proxy answers to the URL the browser is loading, for the user the
\* provider reports.
GateAnswerTo(url, u) ==
    Decide("proxy", [url |-> url, cookies |-> NoCookies], u,
           NextResponseNext([url |-> url, cookies |-> NoCookies]))

\* The step follows a redirect of the gate.
RedirectHop ==
    /\ browser.status = "loading"
    /\ browser'.status = "loading"
    /\ browser'.hops = browser.hops + 1

\* C33: with the authentication state unchanged, a navigation follows at
\* most two redirects of proxy and the URL it is at after the second one is
\* allowed; no redirect leads to the URL it came from or to a URL that proxy
\* sends back to it.
C33_NoRedirectLoop ==
    /\ [](/\ browser.hops <= 2
          /\ (browser.status = "loading" /\ browser.hops = 2
                 => GateAnswerTo(browser.url, session).decision = "Allow"))
    /\ [][RedirectHop
             => /\ browser'.url # browser.url
                /\ LET back == GateAnswerTo(browser'.url, session)
                   IN  back.response.kind = "redirect"
                           => ParseUrl(back.response.location) # browser.url
         ]_vars

\* the user is signed in and opened /login?redirect=/login: after two
\* redirects the browser has loaded /
C33_Witness ==
    /\ session = "u1"
    /\ browser.hops = 2
    /\ browser.status = "loaded"
    /\ browser.url.pathname = P_root

\* A gate has refreshed the session and answered the request.
AnsweredAfterRefresh ==
    /\ gpc = "done"
    /\ getUserResolved

\* What gate g answers to the request and the user of this pass.
AnswerOf(g) == Decide(g, request, user, supabaseResponse)

\* C34: for the request and the user of any pass, updateSession sending to
\* the login implies proxy sending to the login; one gate sends away from an
\* auth page exactly when the other does, to the same URL; and the two
\* decisions differ only without a user and on / or on a path that starts
\* with /account.
C34_ProxyRefinesUpdateSession ==
    AnsweredAfterRefresh =>
        LET p == AnswerOf("proxy")
            s == AnswerOf("updateSession")
            path == request.url.pathname
        IN  /\ decision = AnswerOf(gate).decision
            /\ s.decision = "RedirectToLogin" => p.decision = "RedirectToLogin"
            /\ (s.decision = "RedirectFromAuth") = (p.decision = "RedirectFromAuth")
            /\ s.decision = "RedirectFromAuth" => s.response = p.response
            /\ p.decision # s.decision
                  => /\ user = NoUser
                     /\ path = P_root \/ StartsWith(path, P_account)
            /\ p.decision = s.decision /\ p.response.kind = "redirect"
                  => p.response.location = s.response.location

\* updateSession has let /accountability through for nobody signed in, and
\* proxy sends the same request to the login
C34_Witness ==
    /\ AnsweredAfterRefresh
    /\ gate = "updateSession"
    /\ request.url.pathname = P_accountability
    /\ user = NoUser
    /\ decision = "Allow"
    /\ AnswerOf("proxy").decision = "RedirectToLogin"

\* The step is the second half of a createMilestone call: the insert is sent.
InsertStep ==
    /\ mPending # NoPending
    /\ mPending' = NoPending
    /\ Len(mCalls') = 1
    /\ mCalls'[1].fn = "insert"

\* C35: the row createMilestone sends to the table has in created_by the
\* user who passed the admin check of that call, also when the session has
\* changed since the check; no row is sent or stored without a created_by.
C35_CreatedByIsCheckedAdmin ==
    /\ [](\A m \in milestones : m.created_by # NoUser)
    /\ [][InsertStep
             => /\ mCalls'[1].row.created_by # NoUser
                /\ mCalls'[1].row.created_by = mPending.checked
         ]_vars

\* The step is a call of signOut.
SignOutStep ==
    /\ lastOp'.op = "signOut"
    /\ \E o \in {NoError, M_fetch} : SignOut(o)

\* proxy gets the answer of getUser() for a request to a Protected path.
ProtectedResolveStep ==
    /\ gpc = "refreshing"
    /\ gpc' = "done"
    /\ gate = "proxy"
    /\ ExpectedProtected(request.url.pathname)

\* C32: every signOut makes the provider's sign-out call and answers with
\* the redirect to /login, whether the call succeeded or not; once the
\* session is gone, proxy answers every request to a Protected path with the
\* redirect to the login, and the session comes back only by a verification
\* that succeeds.
C32_SignOutThenLoginRequired ==
    [][/\ SignOutStep
             => /\ otpCalls' = <<[fn |-> "signOut"]>>
                /\ page'.answer = Redirect(P_login)
                /\ (providerError' = NoError => session' = NoUser)
       /\ ProtectedResolveStep /\ session = NoUser
             => /\ decision' = "RedirectToLogin"
                /\ response'.kind = "redirect"
                /\ ParseUrl(response'.location).pathname = P_login
       /\ session = NoUser /\ session' # NoUser
             => \/ /\ lastOp'.op = "verifyOTP"
                   /\ otpResult'.success
                \/ /\ page'.name = "callback"
                   /\ page'.checks = <<"exchangeCodeForSession">>
                   /\ page'.answer # Redirect(Origin \o P_login)
      ]_vars

\* u1 has signed out, and proxy has sent the request for /account that came
\* after it to the login
C32_Witness ==
    /\ lastOp = [op |-> "signOut", arg |-> <<"u1">>]
    /\ session = NoUser
    /\ page.answer = Redirect(P_login)
    /\ gpc = "done"
    /\ ~authError
    /\ gate = "proxy"
    /\ request.url.pathname = P_account
    /\ decision = "RedirectToLogin"

\* The step is a request to the callback route.
CallbackStep(url, o, dev, fwd) ==
    /\ page'.name = "callback"
    /\ OAuthCallback(url, o, dev, fwd)

\* The answer is a redirect whose target is the path p on one of the hosts.
RedirectsToPath(answer, p) ==
    /\ answer.kind = "redirect"
    /\ \/ answer.location = Origin \o p
       \/ answer.location = <<"https://", "edge.example">> \o p

\* C31: the callback answers with the redirect to next, or to / when the
\* request names no next, only for a request with a code whose exchange
\* succeeded; without a code, with an empty one, or after a failed exchange
\* it answers with the redirect to /login; every answer is a redirect, and
\* the exchange is attempted only with a code.
C31_CallbackRedirects ==
    [][\A url \in CallbackRequests, o \in ExchangeOutcomes, dev \in BOOLEAN,
          fwd \in ForwardedHosts :
          CallbackStep(url, o, dev, fwd)
              => LET q == url.query
                     code == ParamGet(q, K_code)
                     next == ParamGet(q, K_next)
                     exchanged == code = V_code /\ o = NoError
                 IN  /\ page'.answer.kind = "redirect"
                     /\ exchanged
                           => RedirectsToPath(page'.answer,
                                              IF next = NoParam THEN P_root ELSE next)
                     /\ ~exchanged
                           => page'.answer = Redirect(Origin \o P_login)
                     /\ (page'.checks # <<>>) = (code = V_code)
      ]_vars

\* the exchange of the code succeeded for a request that names no next: the
\* user is signed in and sent to /
C31_Witness ==
    /\ page.name = "callback"
    /\ page.checks = <<"exchangeCodeForSession">>
    /\ page.answer = Redirect(Origin \o P_root)
    /\ session = "u1"

====
